---------------------------- MODULE Spec2Model ----------------------------
(***************************************************************************)
(* secure-grid-ai: the phishing analyzers (URL, email, logo) served as     *)
(* edge functions.  Each handler validates a JSON request, extracts        *)
(* features, scores them with fixed rules, consults an external AI oracle  *)
(* over HTTP, combines both scores and answers with a JSON response.       *)
(*                                                                         *)
(* Strings are TLA+ strings; a character is a string of length one.        *)
(***************************************************************************)
EXTENDS Integers, Sequences, FiniteSets, TLC

(***************************************************************************)
(* JavaScript string primitives, as the handlers use them.                 *)
(***************************************************************************)
\* F(x) with x evaluated once, however often F refers to it
With(x, F(_)) == CHOOSE v \in {F(y) : y \in {x}} : TRUE

\* s.charAt(i - 1): the empty string outside the string
Ch(s, i) == IF i >= 1 /\ i <= Len(s) THEN SubSeq(s, i, i) ELSE ""

Digits == {"0", "1", "2", "3", "4", "5", "6", "7", "8", "9"}

LowerLetters == {"a", "b", "c", "d", "e", "f", "g", "h", "i", "j", "k", "l", "m",
                 "n", "o", "p", "q", "r", "s", "t", "u", "v", "w", "x", "y", "z"}

UpperLetters == {"A", "B", "C", "D", "E", "F", "G", "H", "I", "J", "K", "L", "M",
                 "N", "O", "P", "Q", "R", "S", "T", "U", "V", "W", "X", "Y", "Z"}

Vowels == {"a", "e", "i", "o", "u"}

LowerOf ==
    "A" :> "a" @@ "B" :> "b" @@ "C" :> "c" @@ "D" :> "d" @@ "E" :> "e"
    @@ "F" :> "f" @@ "G" :> "g" @@ "H" :> "h" @@ "I" :> "i" @@ "J" :>
    "j" @@ "K" :> "k" @@ "L" :> "l" @@ "M" :> "m" @@ "N" :> "n" @@ "O"
    :> "o" @@ "P" :> "p" @@ "Q" :> "q" @@ "R" :> "r" @@ "S" :> "s" @@
    "T" :> "t" @@ "U" :> "u" @@ "V" :> "v" @@ "W" :> "w" @@ "X" :> "x"
    @@ "Y" :> "y" @@ "Z" :> "z"

LowerChar(c) == With(c, LAMBDA v : IF v \in UpperLetters THEN LowerOf[v] ELSE v)

\* String.prototype.toLowerCase (ASCII)
RECURSIVE ToLowerCase(_)
ToLowerCase(s) ==
    With(s, LAMBDA v :
        IF Len(v) <= 1 THEN LowerChar(v)
        ELSE ToLowerCase(SubSeq(v, 1, Len(v) \div 2))
                 \o ToLowerCase(SubSeq(v, Len(v) \div 2 + 1, Len(v))))

\* String.prototype.includes
Includes(s, t) ==
    \E v \in {s}, w \in {t} :
        \E i \in 1..(Len(v) - Len(w) + 1) : SubSeq(v, i, i + Len(w) - 1) = w

\* String.prototype.startsWith
StartsWith(s, t) ==
    \E v \in {s}, w \in {t} : Len(w) <= Len(v) /\ SubSeq(v, 1, Len(w)) = w

\* String.prototype.endsWith
EndsWith(s, t) ==
    \E v \in {s}, w \in {t} :
        Len(w) <= Len(v) /\ SubSeq(v, Len(v) - Len(w) + 1, Len(v)) = w

\* (s.match(/c/g) || []).length for a character class
CountIn(s, class) ==
    With(s, LAMBDA v : Cardinality({i \in 1..Len(v) : SubSeq(v, i, i) \in class}))

\* Position of the first character of s in class, Len(s) + 1 when there is none
FirstOf(s, class) ==
    With(s, LAMBDA v :
        With({i \in 1..Len(v) : SubSeq(v, i, i) \in class}, LAMBDA at :
            IF at = {} THEN Len(v) + 1
            ELSE CHOOSE i \in at : \A j \in at : i <= j))

\* Position of the last character of s in class, 0 when there is none
LastOf(s, class) ==
    With(s, LAMBDA v :
        With({i \in 1..Len(v) : SubSeq(v, i, i) \in class}, LAMBDA at :
            IF at = {} THEN 0 ELSE CHOOSE i \in at : \A j \in at : i >= j))

AllIn(s, class) == \E v \in {s} : \A i \in 1..Len(v) : SubSeq(v, i, i) \in class

\* Array.prototype.join
RECURSIVE Join(_, _)
Join(seq, sep) ==
    With(seq, LAMBDA v :
        IF v = <<>> THEN ""
        ELSE IF Len(v) = 1 THEN v[1]
        ELSE v[1] \o sep \o Join(Tail(v), sep))

\* a faulty spread: the array copied without going through a Set
SpreadWithoutSet(seq) == seq

\* [...new Set(seq)]: each value at its first occurrence
SetSpread(seq) ==
    With(seq, LAMBDA v :
        With({i \in 1..Len(v) : \A j \in 1..(i - 1) : v[j] # v[i]}, LAMBDA first :
            [k \in 1..Cardinality(first) |->
                v[CHOOSE i \in first : Cardinality({j \in first : j <= i}) = k]]))

\* Array.prototype.slice(0, n)
Slice0(seq, n) ==
    With(seq, LAMBDA v : SubSeq(v, 1, IF Len(v) < n THEN Len(v) ELSE n))

Min(a, b) == With(a, LAMBDA x : With(b, LAMBDA y : IF x <= y THEN x ELSE y))

Max(a, b) == With(a, LAMBDA x : With(b, LAMBDA y : IF x >= y THEN x ELSE y))

\* /\d{1,3}\.\d{1,3}\.\d{1,3}\.\d{1,3}/.test(s): unanchored
DigitRun(s, i, n) == \A k \in i..(i + n - 1) : k <= Len(s) /\ Ch(s, k) \in Digits

HasIpPattern(s) ==
    \E v \in {s} : \E i \in 1..Len(v) : \E b \in 1..3 : \E c \in 1..3 :
        /\ DigitRun(v, i, 1)
        /\ Ch(v, i + 1) = "."
        /\ DigitRun(v, i + 2, b)
        /\ Ch(v, i + 2 + b) = "."
        /\ DigitRun(v, i + 3 + b, c)
        /\ Ch(v, i + 3 + b + c) = "."
        /\ DigitRun(v, i + 4 + b + c, 1)

\* /%[0-9a-fA-F]{2}/.test(s)
HexChars == Digits \cup {"a", "b", "c", "d", "e", "f", "A", "B", "C", "D", "E", "F"}

HasEncodedPattern(s) ==
    \E v \in {s} : \E i \in 1..(Len(v) - 2) :
        Ch(v, i) = "%" /\ Ch(v, i + 1) \in HexChars /\ Ch(v, i + 2) \in HexChars

\* Position of the first character of s outside class, Len(s) + 1 when there is none
FirstNotOf(s, class) ==
    With(s, LAMBDA v :
        With({i \in 1..Len(v) : SubSeq(v, i, i) \notin class}, LAMBDA at :
            IF at = {} THEN Len(v) + 1
            ELSE CHOOSE i \in at : \A j \in at : i <= j))

DigitValue(c) ==
    With(c, LAMBDA v :
        CASE v = "0" -> 0 [] v = "1" -> 1 [] v = "2" -> 2 [] v = "3" -> 3
          [] v = "4" -> 4 [] v = "5" -> 5 [] v = "6" -> 6 [] v = "7" -> 7
          [] v = "8" -> 8 [] v = "9" -> 9)

\* The value of a string of decimal digits; more than six digits count as 999999
RECURSIVE DecimalFrom(_, _)
DecimalFrom(s, acc) ==
    With(<<s, acc>>, LAMBDA v :
        IF v[1] = "" THEN v[2]
        ELSE IF v[2] > 99999 THEN 999999
        ELSE DecimalFrom(Tail(v[1]), 10 * v[2] + DigitValue(Ch(v[1], 1))))

Decimal(s) == DecimalFrom(s, 0)

\* s.split(sep) for a one-character separator
RECURSIVE Split(_, _)
Split(s, sep) ==
    With(s, LAMBDA v :
        With(FirstOf(v, {sep}), LAMBDA i :
            IF i > Len(v) THEN <<v>>
            ELSE <<SubSeq(v, 1, i - 1)>> \o Split(SubSeq(v, i + 1, Len(v)), sep)))

(***************************************************************************)
(* new URL(input), with no base URL: the WHATWG URL parser restricted to   *)
(* what the analyzers read (protocol, hostname, port, pathname, search).   *)
(* Inputs are printable ASCII without whitespace; IPv6 literals, percent-  *)
(* encoded hosts and non-decimal IPv4 numbers are rejected rather than     *)
(* normalised.                                                             *)
(***************************************************************************)
SchemeChars == LowerLetters \cup UpperLetters \cup Digits \cup {"+", "-", "."}

SpecialSchemes == {"http", "https", "ftp", "ws", "wss"}

DefaultPort(scheme) ==
    CASE scheme \in {"http", "ws"} -> 80
      [] scheme \in {"https", "wss"} -> 443
      [] scheme = "ftp" -> 21
      [] OTHER -> -1

ForbiddenHostChars ==
    {" ", "#", "/", ":", "<", ">", "?", "@", "[", "\\", "]", "^", "|", "%"}

UrlFailure ==
    [ok |-> FALSE, protocol |-> "", hostname |-> "", port |-> "",
     pathname |-> "", search |-> ""]

\* A host whose last label is a number must be a plain dotted quad
ValidIpv4OrName(host) ==
    With(Split(host, "."), LAMBDA labels :
    With(labels[Len(labels)], LAMBDA last :
       IF last # "" /\ AllIn(last, Digits)
        THEN /\ Len(labels) = 4
             /\ \A k \in 1..4 :
                    /\ labels[k] # ""
                    /\ AllIn(labels[k], Digits)
                    /\ Decimal(labels[k]) <= 255
                    /\ (Len(labels[k]) > 1 => Ch(labels[k], 1) # "0")
        ELSE TRUE))

ParseAuthority(scheme, afterSlashes, special) ==
    With(FirstOf(afterSlashes, IF special THEN {"/", "\\", "?"} ELSE {"/", "?"}), LAMBDA authEnd :
    With(SubSeq(afterSlashes, 1, authEnd - 1), LAMBDA authority :
    With(SubSeq(afterSlashes, authEnd, Len(afterSlashes)), LAMBDA tail :
    With(LastOf(authority, {"@"}), LAMBDA at :
    With(SubSeq(authority, at + 1, Len(authority)), LAMBDA hostport :
    With(FirstOf(hostport, {":"}), LAMBDA pcolon :
    With(SubSeq(hostport, 1, pcolon - 1), LAMBDA hostRaw :
    With(SubSeq(hostport, pcolon + 1, Len(hostport)), LAMBDA portStr :
    With((IF special THEN ToLowerCase(hostRaw) ELSE hostRaw), LAMBDA host :
    With(Decimal(portStr), LAMBDA portNum :
    With(FirstOf(tail, {"?"}), LAMBDA qpos :
    With(SubSeq(tail, 1, qpos - 1), LAMBDA path :
    With(SubSeq(tail, qpos, Len(tail)), LAMBDA query :
       IF \/ (special /\ host = "")
           \/ (at > 0 /\ host = "")
           \/ \E i \in 1..Len(host) : Ch(host, i) \in ForbiddenHostChars
           \/ ~AllIn(portStr, Digits)
           \/ (portStr # "" /\ portNum > 65535)
           \/ (special /\ ~ValidIpv4OrName(host))
        THEN UrlFailure
        ELSE [ok |-> TRUE,
              protocol |-> scheme \o ":",
              hostname |-> host,
              port |-> IF portStr = "" \/ portNum = DefaultPort(scheme)
                       THEN "" ELSE ToString(portNum),
              pathname |-> IF path = "" /\ special THEN "/" ELSE path,
              search |-> IF query = "?" THEN "" ELSE query])))))))))))))

ParseUrl(input) ==
    With(FirstOf(input, {":"}), LAMBDA colon :
    With(SubSeq(input, 1, colon - 1), LAMBDA schemeRaw :
    With(ToLowerCase(schemeRaw), LAMBDA scheme :
    With(SubSeq(input, colon + 1, Len(input)), LAMBDA rest :
    With(SubSeq(rest, 1, FirstOf(rest, {"#"}) - 1), LAMBDA noFrag :
    With(scheme \in SpecialSchemes, LAMBDA special :
       IF \/ colon > Len(input)
           \/ schemeRaw = ""
           \/ Ch(schemeRaw, 1) \notin (LowerLetters \cup UpperLetters)
           \/ ~AllIn(schemeRaw, SchemeChars)
        THEN UrlFailure
        ELSE IF special
        THEN ParseAuthority(scheme,
                 SubSeq(noFrag, FirstNotOf(noFrag, {"/", "\\"}), Len(noFrag)), TRUE)
        ELSE IF StartsWith(noFrag, "//")
        THEN ParseAuthority(scheme, SubSeq(noFrag, 3, Len(noFrag)), FALSE)
        ELSE With(FirstOf(noFrag, {"?"}), LAMBDA qpos :
             With(SubSeq(noFrag, qpos, Len(noFrag)), LAMBDA query :
                [ok |-> TRUE, protocol |-> scheme \o ":", hostname |-> "",
                  port |-> "", pathname |-> SubSeq(noFrag, 1, qpos - 1),
                  search |-> IF query = "?" THEN "" ELSE query]))))))))

(***************************************************************************)
(* The URL analyzer (analyze-url): feature extraction and rule scoring.    *)
(***************************************************************************)
suspiciousKeywords ==
    <<"login", "signin", "verify", "secure", "account", "update", "confirm",
      "banking", "password", "credential", "suspended", "unusual", "alert",
      "verify", "wallet", "paypal", "apple", "microsoft", "google", "facebook",
      "amazon", "netflix", "support", "help", "service", "billing", "payment",
      "authenticate", "validation", "security", "urgent", "immediately", "action",
      "required", "expire", "limited", "restore", "unlock", "reactivate">>

suspiciousTlds ==
    <<".xyz", ".top", ".tk", ".ml", ".ga", ".cf", ".gq", ".pw", ".cc",
      ".club", ".online", ".site", ".website", ".space", ".icu", ".buzz">>

\* Array.prototype.some over a sequence of strings
SomeIncluded(words, text) == \E k \in 1..Len(words) : Includes(text, words[k])

SomeEndsWith(words, text) == \E k \in 1..Len(words) : EndsWith(text, words[k])

\* Math.log2(k) in units of 1/10000, k = 1..160
Log2E4 ==
    <<
       0, 10000, 15850, 20000, 23219, 25850, 28074, 30000, 31699, 33219,
       34594, 35850, 37004, 38074, 39069, 40000, 40875, 41699, 42479, 43219,
       43923, 44594, 45236, 45850, 46439, 47004, 47549, 48074, 48580, 49069,
       49542, 50000, 50444, 50875, 51293, 51699, 52095, 52479, 52854, 53219,
       53576, 53923, 54263, 54594, 54919, 55236, 55546, 55850, 56147, 56439,
       56724, 57004, 57279, 57549, 57814, 58074, 58329, 58580, 58826, 59069,
       59307, 59542, 59773, 60000, 60224, 60444, 60661, 60875, 61085, 61293,
       61497, 61699, 61898, 62095, 62288, 62479, 62668, 62854, 63038, 63219,
       63399, 63576, 63750, 63923, 64094, 64263, 64429, 64594, 64757, 64919,
       65078, 65236, 65392, 65546, 65699, 65850, 65999, 66147, 66294, 66439,
       66582, 66724, 66865, 67004, 67142, 67279, 67415, 67549, 67682, 67814,
       67944, 68074, 68202, 68329, 68455, 68580, 68704, 68826, 68948, 69069,
       69189, 69307, 69425, 69542, 69658, 69773, 69887, 70000, 70112, 70224,
       70334, 70444, 70553, 70661, 70768, 70875, 70980, 71085, 71189, 71293,
       71396, 71497, 71599, 71699, 71799, 71898, 71997, 72095, 72192, 72288,
       72384, 72479, 72574, 72668, 72761, 72854, 72946, 73038, 73129, 73219
    >>

\* Sum over the positions i of log2(count of str[i]): each character c that
\* occurs k times contributes k * log2(k)
RECURSIVE LogCountSum(_, _, _)
LogCountSum(str, from, to) ==
    IF from > to THEN 0
    ELSE IF from = to THEN Log2E4[CountIn(str, {Ch(str, from)})]
    ELSE With((from + to) \div 2, LAMBDA mid :
            LogCountSum(str, from, mid) + LogCountSum(str, mid + 1, to))

\* Shannon entropy of the character distribution, in units of 1/10000 (floor)
calculateEntropy(str) ==
    With(Len(str), LAMBDA n :
       IF n = 0 THEN 0 ELSE (n * Log2E4[n] - LogCountSum(str, 1, n)) \div n)

Consonants == LowerLetters \ Vowels

\* consonants / letters in units of 1/10000 (floor), 0 without letters
calculateConsonantRatio(str) ==
    With(ToLowerCase(str), LAMBDA low :
    With(CountIn(low, LowerLetters), LAMBDA letters :
       IF letters > 0 THEN (10000 * CountIn(low, Consonants)) \div letters ELSE 0))

\* The counts shared by both branches of extractUrlFeatures
UrlCounts(url) ==
    [length |-> Len(url),
     numDots |-> CountIn(url, {"."}),
     numHyphens |-> CountIn(url, {"-"}),
     numUnderscores |-> CountIn(url, {"_"}),
     numSlashes |-> CountIn(url, {"/"}),
     numDigits |-> CountIn(url, Digits),
     numAtSymbols |-> CountIn(url, {"@"})]

\* digitRatio in units of 1/10000 (floor); exact for the test > 0.3
DigitRatio(url) == (10000 * CountIn(url, Digits)) \div Len(url)

FoundKeywords(url) ==
    With(ToLowerCase(url), LAMBDA low :
       SelectSeq(suspiciousKeywords, LAMBDA kw : Includes(low, kw)))

\* new URL(url.startsWith('http') ? url : `https://${url}`)
UrlToParse(url) == IF StartsWith(url, "http") THEN url ELSE "https://" \o url

extractUrlFeatures(url) ==
    With(ParseUrl(UrlToParse(url)), LAMBDA parsedUrl :
    With(UrlCounts(url), LAMBDA counts :
    With(ToLowerCase(url), LAMBDA low :
    With(parsedUrl.hostname, LAMBDA hostname :
    With(FoundKeywords(url), LAMBDA foundKeywords :
       IF ~parsedUrl.ok
        THEN counts @@
             [parsed |-> FALSE,
              hasHttps |-> FALSE,
              hasIpAddress |-> HasIpPattern(url),
              hasSuspiciousTld |-> SomeIncluded(suspiciousTlds, low),
              hasSuspiciousKeywords |-> SomeIncluded(suspiciousKeywords, low),
              hasEncodedChars |-> HasEncodedPattern(url),
              domainLength |-> 0,
              pathLength |-> 0,
              queryLength |-> 0,
              numSubdomains |-> 0,
              hasPortNumber |-> FALSE,
              suspiciousKeywords |-> foundKeywords,
              entropy |-> calculateEntropy(url),
              consonantRatio |-> calculateConsonantRatio(url),
              digitRatio |-> DigitRatio(url)]
        ELSE counts @@
             [parsed |-> TRUE,
              hasHttps |-> parsedUrl.protocol = "https:",
              hasIpAddress |-> HasIpPattern(hostname),
              hasSuspiciousTld |-> SomeEndsWith(suspiciousTlds, ToLowerCase(hostname)),
              hasSuspiciousKeywords |-> Len(foundKeywords) > 0,
              hasEncodedChars |-> HasEncodedPattern(url),
              domainLength |-> Len(hostname),
              pathLength |-> Len(parsedUrl.pathname),
              queryLength |-> Len(parsedUrl.search),
              numSubdomains |-> Max(0, Len(Split(hostname, ".")) - 2),
              hasPortNumber |-> parsedUrl.port # "",
              suspiciousKeywords |-> foundKeywords,
              entropy |-> calculateEntropy(url),
              consonantRatio |-> calculateConsonantRatio(hostname),
              digitRatio |-> DigitRatio(url)])))))

\* One rule of a scorer: points in quarter points, and its threat string
Rule(fires, points4, threat) ==
    IF fires THEN [points4 |-> points4, threats |-> <<threat>>]
    ELSE [points4 |-> 0, threats |-> <<>>]

RECURSIVE SumPoints(_)
SumPoints(rules) ==
    IF rules = <<>> THEN 0 ELSE rules[1].points4 + SumPoints(Tail(rules))

RECURSIVE AllThreats(_)
AllThreats(rules) ==
    IF rules = <<>> THEN <<>> ELSE rules[1].threats \o AllThreats(Tail(rules))

\* The rules of calculateRiskScore in the order of the code; the score is in
\* quarter points because the length rule adds (length - 100) / 4
UrlRules(features) ==
    <<Rule(features.hasIpAddress, 4 * 25, "IP address used instead of domain name"),
      Rule(~features.hasHttps, 4 * 10, "Insecure HTTP connection"),
      Rule(features.hasSuspiciousTld, 4 * 20, "Suspicious top-level domain detected"),
      Rule(features.hasSuspiciousKeywords,
           4 * Min(25, Len(features.suspiciousKeywords) * 8),
           "Phishing keywords detected: "
               \o Join(Slice0(features.suspiciousKeywords, 3), ", ")),
      Rule(features.length > 100,
           Min(4 * 15, features.length - 100), "Abnormally long URL"),
      Rule(features.numSubdomains > 3,
           4 * Min(15, (features.numSubdomains - 3) * 5),
           "Multiple subdomain levels detected"),
      Rule(features.numHyphens > 3,
           4 * Min(10, (features.numHyphens - 3) * 3), "Excessive hyphens in URL"),
      Rule(features.numAtSymbols > 0, 4 * 20,
           "URL contains @ symbol (potential redirect attack)"),
      Rule(features.hasEncodedChars, 4 * 10, "URL contains encoded characters"),
      Rule(features.hasPortNumber, 4 * 15, "Non-standard port number in URL"),
      Rule(features.entropy > 45000, 4 * 10,
           "High entropy domain (potentially auto-generated)"),
      Rule(features.digitRatio > 3000, 4 * 10, "High ratio of digits in URL")>>

\* a faulty scorer: the sum returned without Math.min(100, score)
RiskScoreWithoutCap(features) ==
    With(UrlRules(features), LAMBDA rules :
       [score4 |-> SumPoints(rules), threats |-> AllThreats(rules)])

calculateRiskScore(features) ==
    With(UrlRules(features), LAMBDA rules :
       [score4 |-> Min(4 * 100, SumPoints(rules)), threats |-> AllThreats(rules)])

(***************************************************************************)
(* The email analyzer (analyze-email): feature extraction and rule scoring.*)
(***************************************************************************)
urgencyKeywords ==
    <<"urgent", "immediately", "asap", "right away", "right now", "hurry",
      "time sensitive", "act now", "limited time", "expires", "deadline",
      "last chance", "don't delay", "must act", "final notice", "warning",
      "immediate action", "24 hours", "48 hours", "today only", "now">>

verificationKeywords ==
    <<"verify", "confirm", "validate", "authenticate", "update your",
      "review your", "check your", "secure your", "protect your">>

threateningKeywords ==
    <<"suspended", "disabled", "blocked", "locked", "terminated",
      "closed", "restricted", "limited", "compromised", "unauthorized",
      "violation", "penalty", "legal action", "prosecution", "arrest">>

moneyKeywords ==
    <<"payment", "invoice", "bill", "charge", "refund", "credit",
      "bank", "transfer", "wire", "bitcoin", "crypto", "prize",
      "winner", "lottery", "inheritance", "million", "dollar">>

knownBrands ==
    <<"paypal", "amazon", "apple", "microsoft", "google", "facebook",
      "netflix", "spotify", "instagram", "twitter", "linkedin", "bank",
      "wells fargo", "chase", "citi", "hsbc", "barclays", "irs", "dhl",
      "fedex", "ups", "usps", "dropbox", "adobe", "zoom", "slack">>

\* legitimateDomains[brand]; the empty sequence stands for a brand with no entry
legitimateDomains(brand) ==
    CASE brand = "paypal" -> <<"paypal.com", "paypal.co.uk">>
      [] brand = "amazon" -> <<"amazon.com", "amazon.co.uk", "amazon.in", "amazon.de">>
      [] brand = "apple" -> <<"apple.com", "icloud.com">>
      [] brand = "microsoft" -> <<"microsoft.com", "outlook.com", "live.com", "hotmail.com">>
      [] brand = "google" -> <<"google.com", "gmail.com">>
      [] brand = "netflix" -> <<"netflix.com">>
      [] brand = "facebook" -> <<"facebook.com", "fb.com">>
      [] OTHER -> <<>>

Whitespace == {" ", "\t", "\n", "\r"}

\* senderLower.match(/@([a-zA-Z0-9.-]+)/): the run after the first "@" that
\* is followed by a domain character; "" when there is none
DomainChars == LowerLetters \cup UpperLetters \cup Digits \cup {".", "-"}

SenderDomainOf(senderLower) ==
    IF \E i \in 1..Len(senderLower) :
           Ch(senderLower, i) = "@" /\ Ch(senderLower, i + 1) \in DomainChars
    THEN With((CHOOSE i \in 1..Len(senderLower) :
                     /\ Ch(senderLower, i) = "@"
                     /\ Ch(senderLower, i + 1) \in DomainChars
                     /\ \A j \in 1..(i - 1) :
                            ~(Ch(senderLower, j) = "@"
                              /\ Ch(senderLower, j + 1) \in DomainChars)), LAMBDA at :
         With(SubSeq(senderLower, at + 1, Len(senderLower)), LAMBDA after :
            SubSeq(after, 1, FirstNotOf(after, DomainChars) - 1)))
    ELSE ""

\* /\d{3,}/.test(s)
HasThreeDigits(s) == \E i \in 1..(Len(s) - 2) : DigitRun(s, i, 3)

\* The brands pushed by the impersonation loop, in dictionary order
ImpersonatedBrands(fullText, senderLower, senderDomain) ==
    SelectSeq(knownBrands, LAMBDA brand :
        /\ (Includes(fullText, brand) \/ Includes(senderLower, brand))
        /\ legitimateDomains(brand) # <<>>
        /\ ~SomeEndsWith(legitimateDomains(brand), senderDomain)
        /\ Includes(senderDomain, brand))

\* body.match(/(https?:\/\/[^\s<>"{}|\\^`\[\]]+)/gi) || []; the backquote is
\* not a character of the modelled inputs
LinkStop == Whitespace \cup {"<", ">", "\"", "{", "}", "|", "\\", "^", "[", "]"}

LinkStartsAt(body, i) ==
    With(ToLowerCase(SubSeq(body, i, Min(Len(body), i + 7))), LAMBDA low :
    With((IF StartsWith(low, "https://") THEN 8
             ELSE IF StartsWith(low, "http://") THEN 7 ELSE 0), LAMBDA n :
       IF n > 0 /\ i + n <= Len(body) /\ Ch(body, i + n) \notin LinkStop THEN n ELSE 0))

RECURSIVE ExtractLinks(_, _)
ExtractLinks(body, i) ==
    With({j \in i..Len(body) : LinkStartsAt(body, j) # 0}, LAMBDA starts :
       IF starts = {} THEN <<>>
        ELSE With((CHOOSE j \in starts : \A k \in starts : j <= k), LAMBDA first :
             With(SubSeq(body, first, Len(body)), LAMBDA rest :
             With(FirstOf(rest, LinkStop), LAMBDA stop :
                <<SubSeq(rest, 1, stop - 1)>> \o ExtractLinks(body, first + stop - 1)))))

IsSuspiciousLink(link) ==
    With(ToLowerCase(link), LAMBDA linkLower :
       \/ HasIpPattern(link)
        \/ Includes(linkLower, "bit.ly")
        \/ Includes(linkLower, "tinyurl")
        \/ Includes(linkLower, "click")
        \/ Includes(linkLower, "verify")
        \/ Includes(linkLower, "secure")
        \/ Includes(link, "@")
        \/ Len(link) > 100)

\* /[A-Z]{5,}/.test(s)
HasFiveCapitals(s) ==
    \E i \in 1..(Len(s) - 4) : \A k \in i..(i + 4) : Ch(s, k) \in UpperLetters

\* /\s{2,}/.test(s)
HasDoubleSpace(s) ==
    \E i \in 1..(Len(s) - 1) : Ch(s, i) \in Whitespace /\ Ch(s, i + 1) \in Whitespace

GrammarScore(body) ==
    With(ToLowerCase(body), LAMBDA low :
       100 - (IF HasDoubleSpace(body) THEN 10 ELSE 0)
            - (IF HasFiveCapitals(body) THEN 15 ELSE 0)
            - (IF Includes(body, "!!!") THEN 10 ELSE 0)
            - (IF \/ Includes(low, "dear customer")
                  \/ Includes(low, "dear user")
                  \/ Includes(low, "dear valued") THEN 20 ELSE 0))

CountIncluded(words, text) ==
    Len(SelectSeq(words, LAMBDA kw : Includes(text, kw)))

extractEmailFeatures(sender, subject, body) ==
    With(ToLowerCase(subject \o " " \o body), LAMBDA fullText :
    With(ToLowerCase(sender), LAMBDA senderLower :
    With(SenderDomainOf(senderLower), LAMBDA senderDomain :
    With(ImpersonatedBrands(fullText, senderLower, senderDomain), LAMBDA impersonatedBrands :
    With(CountIncluded(urgencyKeywords, fullText), LAMBDA urgencyCount :
    With(ExtractLinks(body, 1), LAMBDA links :
    With(SelectSeq(links, IsSuspiciousLink), LAMBDA suspiciousLinks :
       [senderDomain |-> senderDomain,
         senderUser |-> Split(senderLower, "@")[1],
         isSpoofedDomain |->
             \/ Len(impersonatedBrands) > 0
             \/ (Includes(senderDomain, "-") /\ Len(Split(senderDomain, "-")) > 2)
             \/ HasThreeDigits(senderDomain),
         hasUrgencyKeywords |-> urgencyCount > 0,
         urgencyCount |-> urgencyCount,
         hasVerificationKeywords |-> SomeIncluded(verificationKeywords, fullText),
         hasThreateningLanguage |-> SomeIncluded(threateningKeywords, fullText),
         hasSuspiciousLinks |-> Len(suspiciousLinks) > 0,
         linkCount |-> Len(links),
         suspiciousLinks |-> suspiciousLinks,
         hasAttachmentMentions |->
             \/ Includes(fullText, "attach")
             \/ Includes(fullText, "download")
             \/ Includes(fullText, "open the file")
             \/ Includes(fullText, "see attached"),
         hasMoneyRelatedContent |-> SomeIncluded(moneyKeywords, fullText),
         hasBrandImpersonation |-> Len(impersonatedBrands) > 0,
         impersonatedBrands |-> impersonatedBrands,
         grammarScore |-> Max(0, GrammarScore(body)),
         sentimentScore |-> 50])))))))

EmailRules(features) ==
    <<Rule(features.isSpoofedDomain, 4 * 30,
           "Spoofed sender domain detected: " \o features.senderDomain),
      Rule(features.hasBrandImpersonation, 4 * 25,
           "Brand impersonation attempt: " \o Join(features.impersonatedBrands, ", ")),
      Rule(features.hasUrgencyKeywords, 4 * Min(20, features.urgencyCount * 5),
           "Urgency manipulation detected (" \o ToString(features.urgencyCount)
               \o " keywords)"),
      Rule(features.hasVerificationKeywords, 4 * 15,
           "Credential harvesting language detected"),
      Rule(features.hasThreateningLanguage, 4 * 20,
           "Threatening/fear-based language detected"),
      Rule(features.hasSuspiciousLinks, 4 * 20,
           "Suspicious links found: " \o ToString(Len(features.suspiciousLinks))),
      Rule(features.hasMoneyRelatedContent
               /\ (features.hasUrgencyKeywords \/ features.hasThreateningLanguage),
           4 * 15, "Financial urgency pressure tactics"),
      Rule(features.grammarScore < 60, 4 * 10,
           "Poor grammar quality (common in phishing)")>>

calculateEmailRiskScore(features) ==
    With(EmailRules(features), LAMBDA rules :
       [score4 |-> Min(4 * 100, SumPoints(rules)), threats |-> AllThreats(rules)])

(***************************************************************************)
(* analyze-email, heuristic only: calcEmailScore and its helpers           *)
(***************************************************************************)
OFFICIAL_DOMAINS == <<"paypal.com", "amazon.com", "google.com">>

\* String.prototype.trim
Trim(s) ==
    With(s, LAMBDA v :
        With({i \in 1..Len(v) : SubSeq(v, i, i) \notin Whitespace}, LAMBDA at :
            IF at = {} THEN ""
            ELSE SubSeq(v, CHOOSE i \in at : \A j \in at : i <= j,
                           CHOOSE i \in at : \A j \in at : i >= j)))

\* the text after the last "@" of the lowered sender, trimmed; "" without "@"
getDomain(sender) ==
    With(ToLowerCase(sender), LAMBDA lower :
        With(LastOf(lower, {"@"}), LAMBDA at :
            IF at >= 1 THEN Trim(SubSeq(lower, at + 1, Len(lower))) ELSE ""))

PhishSubjectWords == <<"urgent", "verify", "suspend", "immediate", "click", "login">>

PhishBodyWords == <<"click", "verify", "update", "account", "login">>

BenignSubjectWords == <<"receipt", "order confirmation">>

\* senderLower.includes("-") || includes("update") || includes("security")
HasPhishSender(senderLower) ==
    SomeIncluded(<<"-", "update", "security">>, senderLower)

\* forceSafe12
ForceSafe12(isOfficial, hasPhishSender, hasPhishSubject, hasPhishBody) ==
    isOfficial /\ ~hasPhishSender /\ ~hasPhishSubject /\ ~hasPhishBody

calcEmailScore(sender, subject, body) ==
    With(ToLowerCase(sender), LAMBDA senderLower :
    With(ToLowerCase(subject), LAMBDA subjectLower :
    With(ToLowerCase(body), LAMBDA bodyLower :
    With(getDomain(sender), LAMBDA senderDomain :
    With([sender |-> HasPhishSender(senderLower),
          subject |-> SomeIncluded(PhishSubjectWords, subjectLower),
          body |-> SomeIncluded(PhishBodyWords, bodyLower),
          tld |-> senderDomain # "" /\ ~EndsWith(senderDomain, ".com"),
          benign |-> SomeIncluded(BenignSubjectWords, subjectLower),
          isOfficial |-> \E k \in 1..Len(OFFICIAL_DOMAINS) :
                             OFFICIAL_DOMAINS[k] = senderDomain], LAMBDA hit :
    With([sender |-> IF hit.sender THEN 40 ELSE 0,
          subject |-> (IF hit.subject THEN 30 ELSE 0) - (IF hit.benign THEN 20 ELSE 0),
          body |-> IF hit.body THEN 25 ELSE 0,
          tld |-> IF hit.tld THEN 20 ELSE 0], LAMBDA points :
    With(points.sender + points.subject + points.body + points.tld, LAMBDA rawScore :
    With(Min(94, Max(0, rawScore)), LAMBDA probability :
    With(ForceSafe12(hit.isOfficial, hit.sender, hit.subject, hit.body),
         LAMBDA forceSafe12 :
       [senderDomain |-> senderDomain,
        rawScore |-> rawScore,
        probability |-> IF forceSafe12 THEN 12 ELSE probability,
        result |-> IF forceSafe12 THEN "safe"
                   ELSE IF probability > 50 THEN "phishing" ELSE "safe",
        breakdown |-> points,
        flags |-> [hasPhishSender |-> hit.sender,
                   hasPhishSubject |-> hit.subject,
                   hasPhishBody |-> hit.body,
                   isOfficial |-> hit.isOfficial]])))))))))

(***************************************************************************)
(* Parsed JSON objects are records; an absent key is absent from DOMAIN.   *)
(* Booleans, integers, strings and arrays of strings are the value types.  *)
(***************************************************************************)
EmptyObject == [f \in {} |-> ""]

Has(obj, f) == f \in DOMAIN obj

\* obj.f is truthy, for a boolean field
TruthyFlag(obj, f) == Has(obj, f) /\ obj[f]

\* obj.f || dflt, for a number field: undefined and 0 are falsy
NumberOr(obj, f, dflt) == IF Has(obj, f) /\ obj[f] # 0 THEN obj[f] ELSE dflt

\* obj.f is truthy, for a string field
TruthyText(obj, f) == Has(obj, f) /\ obj[f] # ""

\* obj.f || [], for an array field
ArrayOr(obj, f) == IF Has(obj, f) THEN obj[f] ELSE <<>>

(***************************************************************************)
(* The score combination of analyze-url and analyze-email.                 *)
(*                                                                         *)
(* The code computes in IEEE-754 doubles.  With the rule score in quarter  *)
(* points (r4) and the AI score in half points (a2), the exact combined    *)
(* score is (r4 + 3 * a2) / 10.  Values are kept in units of 1/20: twice   *)
(* the exact tenths, minus or plus one where the double lies just below or *)
(* above an exact multiple of 1/2 (the only places where a comparison with *)
(* a threshold or Math.round can tell the double from the exact value).    *)
(* The tables list those places as r4 * 1000 + a2, for r4 in 0..400 and    *)
(* the a2 of every integer confidence in 0..100.                           *)
(***************************************************************************)
\* ruleBasedScore * 0.4 + aiScore * 0.6: the double lies just below the exact value
CombinedBelow ==
    {
     1003, 1018, 1023, 1048, 1053, 2006, 2031, 2036, 2041, 2046, 2051, 2096,
     2101, 2106, 3024, 3109, 3114, 3119, 3124, 3129, 3134, 3139, 3144, 3149,
     3154, 3159, 3164, 3169, 3174, 3179, 3184, 3189, 3194, 3199, 4012, 4057,
     4062, 4067, 4072, 4077, 4082, 4087, 4092, 4097, 4102, 4192, 4197, 6048,
     7031, 7036, 7041, 7046, 7051, 7096, 7101, 8024, 8109, 8114, 8119, 8124,
     8129, 8134, 8139, 8144, 8149, 8154, 8159, 8164, 8169, 8174, 8179, 8184,
     8189, 8194, 8199, 9057, 9062, 9067, 9072, 9077, 9082, 9087, 9092, 9097,
     9102, 9192, 9197, 11048, 12096, 12101, 13109, 13114, 13119, 13124, 13129, 13134,
     13139, 13144, 13149, 13154, 13159, 13164, 13169, 13174, 13179, 13184, 13189, 13194,
     13199, 14057, 14062, 14067, 14072, 14077, 14082, 14087, 14092, 14097, 14102, 14192,
     14197, 16048, 17096, 17101, 18109, 18114, 18119, 18124, 18129, 18134, 18139, 18144,
     18149, 18154, 18159, 18164, 18169, 18174, 18179, 18184, 18189, 18194, 18199, 19057,
     19062, 19067, 19072, 19077, 19082, 19087, 19092, 19097, 19192, 19197, 22096, 23109,
     23114, 23119, 23124, 23129, 23134, 23139, 23144, 23149, 23154, 23159, 23164, 23169,
     23174, 23179, 23184, 23189, 23194, 23199, 24192, 24197, 27096, 28109, 28114, 28119,
     28124, 28129, 28134, 28139, 28144, 28149, 28154, 28159, 28164, 28169, 28174, 28179,
     28184, 28189, 28194, 28199, 29192, 29197, 32096, 33109, 33114, 33119, 33124, 33129,
     33134, 33139, 33144, 33149, 33154, 33159, 33164, 33169, 33174, 33179, 33184, 33189,
     33194, 33199, 34192, 34197, 38109, 38114, 38119, 38124, 38129, 38134, 38139, 38144,
     38149, 38154, 38159, 38164, 38169, 38174, 38179, 38184, 38189, 38194, 38199, 39192,
     39197, 43109, 43114, 43119, 43124, 43129, 43134, 43139, 43144, 43149, 43154, 43159,
     43164, 43169, 43174, 43179, 43184, 43189, 43194, 43199, 44192, 44197, 49192, 49197,
     54192, 59192, 64192
    }

\* ruleBasedScore * 0.4 + aiScore * 0.6: the double lies just above the exact value
CombinedAbove ==
    {
     12001, 24002, 29002, 48004, 53004, 58004, 63004, 82001, 87001, 92001, 96003, 96008,
     96013, 97001, 101003, 101008, 101013, 102001, 106003, 106008, 106013, 107001, 111003, 111008,
     111013, 112001, 116003, 116008, 116013, 117001, 121003, 121008, 122001, 126003, 126008, 127001,
     131003, 131008, 132001, 136003, 137001, 141003, 142001, 146003, 147001, 152001, 164002, 164007,
     169002, 169007, 174002, 174007, 179002, 179007, 184002, 184007, 189002, 189007, 192001, 192006,
     192011, 192016, 192021, 192026, 194002, 194007, 197001, 197006, 197011, 197016, 197021, 197026,
     199002, 199007, 202001, 202006, 202011, 202016, 202021, 202026, 204002, 204007, 207001, 207006,
     207011, 207016, 207021, 207026, 209002, 209007, 212001, 212006, 212011, 212016, 212021, 212026,
     214002, 214007, 217001, 217006, 217011, 217016, 217021, 217026, 219002, 219007, 222001, 222006,
     222011, 222016, 222021, 222026, 224002, 224007, 227001, 227006, 227011, 227016, 227021, 227026,
     229002, 229007, 232001, 232006, 232011, 232016, 232021, 232026, 234002, 234007, 237001, 237006,
     237011, 237016, 237021, 237026, 239002, 239007, 242001, 242006, 242011, 242016, 242021, 244002,
     244007, 247001, 247006, 247011, 247016, 247021, 249002, 249007, 252001, 252006, 252011, 252016,
     252021, 254002, 254007, 257001, 257006, 257011, 257016, 259002, 259007, 262001, 262006, 262011,
     262016, 264002, 264007, 267001, 267006, 267011, 267016, 269002, 269007, 272001, 272006, 272011,
     274002, 274007, 277001, 277006, 277011, 279002, 279007, 282001, 282006, 282011, 284002, 284007,
     287001, 287006, 289002, 289007, 292001, 292006, 294002, 294007, 297001, 297006, 299002, 302001,
     304002, 307001, 309002, 312001, 323004, 323009, 323014, 323019, 328004, 328009, 328014, 328019,
     333004, 333009, 333014, 333019, 338004, 338009, 338014, 338019, 343004, 343009, 343014, 343019,
     348004, 348009, 348014, 348019, 353004, 353009, 353014, 353019, 358004, 358009, 358014, 358019,
     363004, 363009, 363014, 363019, 368004, 368009, 368014, 368019, 373004, 373009, 373014, 373019,
     378004, 378009, 378014, 378019, 383004, 383009, 383014, 383019, 384002, 384007, 384012, 384017,
     384022, 384027, 384032, 384037, 384042, 384047, 384052, 388004, 388009, 388014, 388019, 389002,
     389007, 389012, 389017, 389022, 389027, 389032, 389037, 389042, 389047, 389052, 393004, 393009,
     393014, 393019, 394002, 394007, 394012, 394017, 394022, 394027, 394032, 394037, 394042, 394047,
     394052, 398004, 398009, 398014, 398019, 399002, 399007, 399012, 399017, 399022, 399027, 399032,
     399037, 399042, 399047, 399052
    }

\* 100 - combinedScore: the double lies just below the exact value
ComplementBelow ==
    {
     323014, 323019, 328014, 328019, 333009, 333014, 333019, 338009, 338014, 338019, 343009, 343014,
     343019, 348004, 348009, 348014, 348019, 353004, 353009, 353014, 353019, 358004, 358009, 358014,
     358019, 363004, 363009, 363014, 363019, 368004, 368009, 368014, 368019, 373004, 373009, 373014,
     373019, 378004, 378009, 378014, 378019, 383004, 383009, 383014, 383019, 384002, 384007, 384012,
     384017, 384022, 384027, 384032, 384037, 384042, 384047, 384052, 388004, 388009, 388014, 388019,
     389002, 389007, 389012, 389017, 389022, 389027, 389032, 389037, 389042, 389047, 389052, 393004,
     393009, 393014, 393019, 394002, 394007, 394012, 394017, 394022, 394027, 394032, 394037, 394042,
     394047, 394052, 398004, 398009, 398014, 398019, 399002, 399007, 399012, 399017, 399022, 399027,
     399032, 399037, 399042, 399047, 399052
    }

\* 100 - combinedScore: the double lies just above the exact value
ComplementAbove ==
    {
     3124, 3129, 3134, 3139, 3144, 3149, 3154, 3159, 3164, 3169, 3174, 3179,
     3184, 3189, 3194, 3199, 4192, 4197, 8119, 8124, 8129, 8134, 8139, 8144,
     8149, 8154, 8159, 8164, 8169, 8174, 8179, 8184, 8189, 8194, 8199, 9192,
     9197, 13119, 13124, 13129, 13134, 13139, 13144, 13149, 13154, 13159, 13164, 13169,
     13174, 13179, 13184, 13189, 13194, 13199, 14192, 14197, 18119, 18124, 18129, 18134,
     18139, 18144, 18149, 18154, 18159, 18164, 18169, 18174, 18179, 18184, 18189, 18194,
     18199, 19192, 19197, 23114, 23119, 23124, 23129, 23134, 23139, 23144, 23149, 23154,
     23159, 23164, 23169, 23174, 23179, 23184, 23189, 23194, 23199, 24192, 24197, 28114,
     28119, 28124, 28129, 28134, 28139, 28144, 28149, 28154, 28159, 28164, 28169, 28174,
     28179, 28184, 28189, 28194, 28199, 29192, 29197, 33114, 33119, 33124, 33129, 33134,
     33139, 33144, 33149, 33154, 33159, 33164, 33169, 33174, 33179, 33184, 33189, 33194,
     33199, 34192, 34197, 38109, 38114, 38119, 38124, 38129, 38134, 38139, 38144, 38149,
     38154, 38159, 38164, 38169, 38174, 38179, 38184, 38189, 38194, 38199, 39192, 39197,
     43109, 43114, 43119, 43124, 43129, 43134, 43139, 43144, 43149, 43154, 43159, 43164,
     43169, 43174, 43179, 43184, 43189, 43194, 43199, 44192, 44197, 49192, 49197, 54192,
     59192, 64192
    }

\* combinedScore + 20: the double lies just below the exact value
PlusTwentyBelow ==
    {
     3109, 3114, 3119, 3124, 3129, 3134, 3139, 3144, 8109, 8114, 8119, 8124,
     8129, 8134, 8139, 8144, 13109, 13114, 13119, 13124, 13129, 13134, 13139, 18109,
     18114, 18119, 18124, 18129, 18134, 18139, 23109, 23114, 23119, 23124, 23129, 23134,
     23139, 28109, 28114, 28119, 28124, 28129, 28134, 33109, 33114, 33119, 33124, 33129,
     33134, 38109, 38114, 38119, 38124, 38129, 38134, 43109, 43114, 43119, 43124, 43129
    }

\* combinedScore + 20: the double lies just above the exact value
PlusTwentyAbove ==
    {
     323004, 323009, 323014, 323019, 328004, 328009, 328014, 328019, 333004, 333009, 333014, 333019,
     338004, 338009, 338014, 338019, 343004, 343009, 343014, 343019, 348004, 348009, 348014, 348019,
     353004, 353009, 353014, 353019, 358004, 358009, 358014, 358019, 363004, 363009, 363014, 363019,
     368004, 368009, 368014, 368019, 373004, 373009, 373014, 373019, 378004, 378009, 378014, 378019,
     383004, 383009, 383014, 384002, 384007, 384012, 384017, 388004, 388009, 388014, 389002, 389007,
     389012, 393004, 393009, 393014, 394002, 394007, 394012, 398004, 398009, 399002, 399007, 399012
    }

Deviation(r4, a2, below, above) ==
    IF r4 * 1000 + a2 \in below THEN -1
    ELSE IF r4 * 1000 + a2 \in above THEN 1 ELSE 0

\* aiScore in half points: isPhishing ? 50 + (confidence || 50) / 2
\*                                    : 50 - (confidence || 50) / 2
AiScore2(aiAnalysis) ==
    IF TruthyFlag(aiAnalysis, "isPhishing")
    THEN 100 + NumberOr(aiAnalysis, "confidence", 50)
    ELSE 100 - NumberOr(aiAnalysis, "confidence", 50)

\* combinedScore = (ruleBasedScore * 0.4) + (aiScore * 0.6), in units of 1/20
CombinedScore20(r4, a2) ==
    2 * (r4 + 3 * a2) + Deviation(r4, a2, CombinedBelow, CombinedAbove)

\* 100 - combinedScore, in units of 1/20
Complement20(r4, a2) ==
    2 * (1000 - (r4 + 3 * a2)) + Deviation(r4, a2, ComplementBelow, ComplementAbove)

\* combinedScore + 20, in units of 1/20
PlusTwenty20(r4, a2) ==
    2 * ((r4 + 3 * a2) + 200) + Deviation(r4, a2, PlusTwentyBelow, PlusTwentyAbove)

\* Math.round of a value in units of 1/20: halves round up
MathRound20(x20) == (x20 + 10) \div 20

\* combinedScore >= 50 ? "phishing" : combinedScore >= 25 ? "suspicious" : "safe"
Verdict(combined20) ==
    IF combined20 >= 20 * 50 THEN "phishing"
    ELSE IF combined20 >= 20 * 25 THEN "suspicious" ELSE "safe"

\* analyze-url: finalConfidence
UrlFinalConfidence(r4, aiAnalysis) ==
    With(AiScore2(aiAnalysis), LAMBDA a2 :
       MathRound20(
            IF r4 > 4 * 20 \/ TruthyFlag(aiAnalysis, "isPhishing")
            THEN Max(CombinedScore20(r4, a2), 20 * NumberOr(aiAnalysis, "confidence", 70))
            ELSE Min(Complement20(r4, a2), 20 * 95)))

\* analyze-url: the confidence of the response
UrlConfidence(r4, aiAnalysis) ==
    With(Verdict(CombinedScore20(r4, AiScore2(aiAnalysis))), LAMBDA result :
    With(UrlFinalConfidence(r4, aiAnalysis), LAMBDA finalConfidence :
       IF result = "safe" THEN finalConfidence ELSE 100 - finalConfidence + 50))

\* analyze-email: the confidence of the response
EmailConfidence(r4, aiAnalysis) ==
    With(AiScore2(aiAnalysis), LAMBDA a2 :
    With(Verdict(CombinedScore20(r4, a2)), LAMBDA result :
       MathRound20(IF result = "safe" THEN Complement20(r4, a2)
                    ELSE Min(20 * 98, PlusTwenty20(r4, a2)))))

(***************************************************************************)
(* The heuristic logo analyzer (analyze-logo).  An absent request field    *)
(* and null are the empty string: every use in the handlers is a           *)
(* truthiness test.                                                        *)
(***************************************************************************)
SAFE_DOMAINS == <<"netflix.com", "amazon.com", "paypal.com">>

PHISH_KEYWORDS == <<"phish", "fake", "scam", "suspicious">>

domainFromUrl(url) ==
    With(ParseUrl(url), LAMBDA parsed :
       IF parsed.ok THEN ToLowerCase(parsed.hostname) ELSE "")

hasSafeDomain(url) ==
    With(domainFromUrl(url), LAMBDA host :
       \E k \in 1..Len(SAFE_DOMAINS) :
            host = SAFE_DOMAINS[k] \/ EndsWith(host, "." \o SAFE_DOMAINS[k]))

\* url.includes("netflix") ? "netflix" : url.includes("amazon") ? ...
BrandInOrder(url, brands) ==
    IF \E k \in 1..Len(brands) : Includes(url, brands[k])
    THEN brands[CHOOSE k \in 1..Len(brands) :
                    /\ Includes(url, brands[k])
                    /\ \A j \in 1..(k - 1) : ~Includes(url, brands[j])]
    ELSE ""

\* The score and the issues before the verdict is produced
LogoHeuristicSignals(input) ==
    With(input.imageUrl, LAMBDA imageUrl :
    With(input.base64Image # ""
                       \/ (imageUrl # "" /\ ~StartsWith(imageUrl, "http")), LAMBDA isLocal :
    With(ToLowerCase(imageUrl), LAMBDA url :
    With(imageUrl # "" /\ SomeIncluded(PHISH_KEYWORDS, url), LAMBDA keyword :
    With(imageUrl # "" /\ (Includes(url, "blur") \/ Len(imageUrl) < 50), LAMBDA lowSignal :
    With(Includes(url, "paypal"), LAMBDA looksLikePaypal :
    With(
            IF imageUrl # ""
            THEN Includes(domainFromUrl(imageUrl), "paypal")
                     \/ Includes(imageUrl, "paypal.com")
            ELSE FALSE, LAMBDA hostedOnPaypal :
    With(looksLikePaypal /\ imageUrl # "" /\ ~hostedOnPaypal, LAMBDA mismatch :
    With((IF keyword THEN 50 ELSE 0) + (IF isLocal THEN 30 ELSE 0)
                   + (IF lowSignal THEN 20 ELSE 0), LAMBDA sum :
       [score |-> IF mismatch THEN Max(sum, 92) ELSE sum,
         issues |->
             (IF keyword THEN <<"URL contains phishing keywords">> ELSE <<>>)
             \o (IF isLocal
                 THEN <<"Local/base64 image (source cannot be verified)">> ELSE <<>>)
             \o (IF lowSignal
                 THEN <<"Low-signal / potentially blurred image reference">> ELSE <<>>)
             \o (IF mismatch THEN <<"PayPal brand on non-official source">> ELSE <<>>),
         looksLikePaypal |-> looksLikePaypal])))))))))

calcLogoHeuristic(input) ==
    With(input.imageUrl, LAMBDA imageUrl :
    With(ToLowerCase(imageUrl), LAMBDA url :
    With(LogoHeuristicSignals(input), LAMBDA signals :
    With(signals.score, LAMBDA score :
    With(Min(95, score), LAMBDA probability :
       IF imageUrl # "" /\ hasSafeDomain(imageUrl) /\ score = 0
        THEN [verdict |-> "safe", probability |-> 8, issues |-> signals.issues,
              detectedBrand |-> BrandInOrder(url, <<"netflix", "amazon", "paypal">>)]
        ELSE IF score = 0
        THEN [verdict |-> "unknown", probability |-> 45,
              issues |-> <<"Unknown logo / insufficient signals">>,
              detectedBrand |-> ""]
        ELSE [verdict |-> IF probability > 30 THEN "phishing" ELSE "unknown",
              probability |-> probability,
              issues |-> signals.issues,
              detectedBrand |-> BrandInOrder(url, <<"paypal", "netflix", "amazon">>)])))))

(***************************************************************************)
(* The vision logo analyzer (analyze-logo with the AI oracle).             *)
(***************************************************************************)
\* Object.keys(knownBrandSignatures), in insertion order
knownBrandSignatures ==
    <<"paypal", "amazon", "apple", "google", "microsoft", "facebook", "netflix",
      "instagram", "twitter", "linkedin", "whatsapp", "spotify">>

\* officialDomains[brand] || []
officialDomains(brand) ==
    CASE brand = "paypal" -> <<"paypal.com", "paypalobjects.com">>
      [] brand = "amazon" -> <<"amazon.com", "amazonaw.com", "media-amazon.com">>
      [] brand = "apple" -> <<"apple.com", "icloud.com", "mzstatic.com">>
      [] brand = "google" -> <<"google.com", "gstatic.com", "googleapis.com">>
      [] brand = "microsoft" -> <<"microsoft.com", "microsoftonline.com", "msftauth.net">>
      [] brand = "facebook" -> <<"facebook.com", "fbcdn.net", "fb.com">>
      [] brand = "netflix" -> <<"netflix.com", "nflximg.net">>
      [] OTHER -> <<>>

logoSuspiciousTlds == <<".xyz", ".tk", ".ml", ".ga", ".cf", ".top", ".icu">>

analyzeImageUrl(imageUrl) ==
    With(ToLowerCase(imageUrl), LAMBDA urlLower :
    With(BrandInOrder(urlLower, knownBrandSignatures), LAMBDA detectedBrand :
       [suspicions |->
             (IF detectedBrand # ""
                   /\ ~SomeIncluded(officialDomains(detectedBrand), urlLower)
              THEN <<detectedBrand \o " logo hosted on unofficial domain">> ELSE <<>>)
             \o (IF HasIpPattern(imageUrl)
                 THEN <<"Image hosted on IP address">> ELSE <<>>)
             \o (IF Includes(urlLower, "data:image")
                 THEN <<"Base64 embedded image (cannot verify source)">> ELSE <<>>)
             \o (IF SomeIncluded(logoSuspiciousTlds, urlLower)
                 THEN <<"Image hosted on suspicious TLD">> ELSE <<>>)
             \o (IF Includes(urlLower, "logo") /\ Includes(urlLower, "fake")
                 THEN <<"URL contains suspicious keywords">> ELSE <<>>),
         detectedBrand |-> detectedBrand]))

(***************************************************************************)
(* The oracle's reply: aiData.choices?.[0]?.message?.content, the greedy    *)
(* match of /\{[\s\S]*\}/ in it, and JSON.parse of the match.              *)
(***************************************************************************)
\* aiContent.match(/\{[\s\S]*\}/): from the first "{" to the last "}"
JsonMatch(aiContent) ==
    With(FirstOf(aiContent, {"{"}), LAMBDA first :
    With(LastOf(aiContent, {"}"}), LAMBDA last :
       IF first <= Len(aiContent) /\ last > first
        THEN [found |-> TRUE, text |-> SubSeq(aiContent, first, last)]
        ELSE [found |-> FALSE, text |-> ""]))

\* JSON.parse on the matches of the message contents the model feeds in; any
\* other text of theirs is not well-formed JSON and raises SyntaxError
JsonParse(text) ==
    CASE text = "{}"
          -> [ok |-> TRUE, value |-> EmptyObject]
      [] text = "{\"isPhishing\":true,\"confidence\":90,\"reasoning\":\"Brand impersonation\",\"additionalThreats\":[\"Typosquatting domain\"]}"
          -> [ok |-> TRUE, value |-> [isPhishing |-> TRUE, confidence |-> 90, reasoning |-> "Brand impersonation", additionalThreats |-> <<"Typosquatting domain">>]]
      [] text = "{\"isPhishing\":false,\"confidence\":95,\"reasoning\":\"Legitimate domain\",\"additionalThreats\":[]}"
          -> [ok |-> TRUE, value |-> [isPhishing |-> FALSE, confidence |-> 95, reasoning |-> "Legitimate domain", additionalThreats |-> <<>>]]
      [] text = "{\"isPhishing\":true,\"confidence\":0}"
          -> [ok |-> TRUE, value |-> [isPhishing |-> TRUE, confidence |-> 0]]
      [] text = "{\"isPhishing\":false,\"confidence\":0}"
          -> [ok |-> TRUE, value |-> [isPhishing |-> FALSE, confidence |-> 0]]
      [] text = "{\"isPhishing\":true,\"confidence\":64}"
          -> [ok |-> TRUE, value |-> [isPhishing |-> TRUE, confidence |-> 64]]
      [] text = "{\"isPhishing\":true,\"confidence\":10,\"reasoning\":\"Weak signal\"}"
          -> [ok |-> TRUE, value |-> [isPhishing |-> TRUE, confidence |-> 10, reasoning |-> "Weak signal"]]
      [] text = "{\"isPhishing\":true,\"confidence\":85,\"reasoning\":\"Credential lure\",\"tactics\":[\"Urgency\"],\"redFlags\":[\"Mismatched sender\"]}"
          -> [ok |-> TRUE, value |-> [isPhishing |-> TRUE, confidence |-> 85, reasoning |-> "Credential lure", tactics |-> <<"Urgency">>, redFlags |-> <<"Mismatched sender">>]]
      [] text = "{\"brandDetected\":\"paypal\",\"isAuthentic\":true,\"confidence\":88,\"issues\":[],\"reasoning\":\"Matches the official logo\"}"
          -> [ok |-> TRUE, value |-> [brandDetected |-> "paypal", isAuthentic |-> TRUE, confidence |-> 88, issues |-> <<>>, reasoning |-> "Matches the official logo"]]
      [] text = "{\"brandDetected\":\"paypal\",\"isAuthentic\":false,\"confidence\":91,\"issues\":[\"Wrong brand colors\",\"Pixelated edges\"],\"reasoning\":\"Counterfeit logo\"}"
          -> [ok |-> TRUE, value |-> [brandDetected |-> "paypal", isAuthentic |-> FALSE, confidence |-> 91, issues |-> <<"Wrong brand colors", "Pixelated edges">>, reasoning |-> "Counterfeit logo"]]
      [] text = "{\"confidence\":90,\"reasoning\":\"Login form on an unrelated domain\",\"additionalThreats\":[\"Fake login form\"]}"
          -> [ok |-> TRUE, value |-> [confidence |-> 90, reasoning |-> "Login form on an unrelated domain", additionalThreats |-> <<"Fake login form">>]]
      [] text = "{\"isPhishing\":true,\"confidence\":80,\"reasoning\":\"Insecure HTTP connection\",\"additionalThreats\":[\"Insecure HTTP connection\",\"Typosquatting domain\",\"Typosquatting domain\",\"Credential form\",\"Brand impersonation\",\"Recently registered domain\",\"Hidden redirect\",\"Obfuscated script\"]}"
          -> [ok |-> TRUE, value |-> [isPhishing |-> TRUE, confidence |-> 80, reasoning |-> "Insecure HTTP connection", additionalThreats |-> <<"Insecure HTTP connection", "Typosquatting domain", "Typosquatting domain", "Credential form", "Brand impersonation", "Recently registered domain", "Hidden redirect", "Obfuscated script">>]]
      [] text = "{\"isPhishing\":true,\"confidence\":80,\"reasoning\":\"Credential lure\",\"tactics\":[\"Urgency\",\"Authority\",\"Fear\",\"Urgency\"],\"redFlags\":[\"Mismatched sender\",\"Generic greeting\",\"Urgency\",\"Shortened link\",\"Odd hours\"]}"
          -> [ok |-> TRUE, value |-> [isPhishing |-> TRUE, confidence |-> 80, reasoning |-> "Credential lure", tactics |-> <<"Urgency", "Authority", "Fear", "Urgency">>, redFlags |-> <<"Mismatched sender", "Generic greeting", "Urgency", "Shortened link", "Odd hours">>]]
      [] OTHER -> [ok |-> FALSE, value |-> EmptyObject]

\* aiData.choices?.[0]?.message?.content || "{}"
AiContentOf(body) ==
    IF body.hasContent /\ body.content # "" THEN body.content ELSE "{}"

(***************************************************************************)
(* Responses.  status and body are those of the Response; the random       *)
(* blockchainHash and the timestamp are fixed tokens.  Scores that can be  *)
(* fractional are in quarter points (ruleBasedScore4, confidence4).        *)
(***************************************************************************)
NoResponse == EmptyObject

HashToken == "0x<64 hex digits>"

TimeToken == "<ISO timestamp>"

ErrorResponse(status, message) == [status |-> status, body |-> [error |-> message]]

Abs(x) == IF x < 0 THEN -x ELSE x

\* analyze-url, !aiResponse.ok: "Fall back to rule-based only"
UrlFallbackResponse(url, features, r4, threats) ==
    [status |-> 200,
     body |-> [url |-> url,
               result |-> IF r4 >= 4 * 50 THEN "phishing"
                          ELSE IF r4 >= 4 * 25 THEN "suspicious" ELSE "safe",
               confidence4 |-> 4 * 100 - Abs(4 * 50 - r4),
               threatIndicators |-> threats,
               analysisDetails |-> [features |-> features,
                                    ruleBasedScore4 |-> r4,
                                    aiAnalysis |-> "null",
                                    method |-> "rule-based"]]]

\* analyze-url, the combination of both analyses
UrlAllThreats(threats, aiAnalysis, result) ==
    threats
    \o ArrayOr(aiAnalysis, "additionalThreats")
    \o (IF TruthyText(aiAnalysis, "reasoning") /\ result # "safe"
        THEN <<aiAnalysis.reasoning>> ELSE <<>>)

UrlHybridResponse(url, features, r4, threats, aiAnalysis) ==
    With(AiScore2(aiAnalysis), LAMBDA a2 :
    With(CombinedScore20(r4, a2), LAMBDA combined20 :
    With(Verdict(combined20), LAMBDA result :
       [status |-> 200,
         body |-> [url |-> url,
                   result |-> result,
                   confidence4 |-> 4 * UrlConfidence(r4, aiAnalysis),
                   threatIndicators |->
                       SetSpread(UrlAllThreats(threats, aiAnalysis, result)),
                   analysisDetails |-> [features |-> features,
                                        ruleBasedScore4 |-> r4,
                                        aiScore |-> MathRound20(10 * a2),
                                        combinedScore |-> MathRound20(combined20),
                                        aiAnalysis |-> aiAnalysis,
                                        method |-> "hybrid-ai"],
                   blockchainHash |-> HashToken,
                   timestamp |-> TimeToken]])))

\* analyze-email
EmailAllThreats(threats, aiAnalysis, result) ==
    threats
    \o ArrayOr(aiAnalysis, "tactics")
    \o ArrayOr(aiAnalysis, "redFlags")
    \o (IF TruthyText(aiAnalysis, "reasoning") /\ result # "safe"
        THEN <<aiAnalysis.reasoning>> ELSE <<>>)

EmailResponse(sender, subject, features, r4, threats, aiAnalysis) ==
    With(AiScore2(aiAnalysis), LAMBDA a2 :
    With(CombinedScore20(r4, a2), LAMBDA combined20 :
    With(Verdict(combined20), LAMBDA result :
       [status |-> 200,
         body |-> [sender |-> sender,
                   subject |-> subject,
                   result |-> result,
                   confidence4 |-> 4 * EmailConfidence(r4, aiAnalysis),
                   threatIndicators |->
                       Slice0(SetSpread(EmailAllThreats(threats, aiAnalysis, result)), 8),
                   analysisDetails |-> [features |-> features,
                                        ruleBasedScore4 |-> r4,
                                        aiScore |-> MathRound20(10 * a2),
                                        combinedScore |-> MathRound20(combined20),
                                        aiAnalysis |-> aiAnalysis,
                                        method |-> "hybrid-email-ai"],
                   blockchainHash |-> HashToken,
                   timestamp |-> TimeToken]])))

\* analyze-logo with the oracle
LogoIsPhishing(urlAnalysis, aiAnalysis) ==
    \/ ~TruthyFlag(aiAnalysis, "isAuthentic")
    \/ Len(urlAnalysis.suspicions) >= 2
    \/ (Has(aiAnalysis, "issues") /\ Len(aiAnalysis.issues) >= 2)

LogoVisionResponse(imageUrl, urlAnalysis, aiAnalysis) ==
    With(LogoIsPhishing(urlAnalysis, aiAnalysis), LAMBDA isPhishing :
       [status |-> 200,
         body |-> [imageUrl |-> IF imageUrl # "" THEN imageUrl ELSE "base64-image",
                   result |-> IF isPhishing THEN "phishing" ELSE "safe",
                   confidence4 |->
                       4 * NumberOr(aiAnalysis, "confidence", IF isPhishing THEN 85 ELSE 75),
                   detectedBrand |->
                       IF TruthyText(aiAnalysis, "brandDetected")
                       THEN aiAnalysis.brandDetected ELSE urlAnalysis.detectedBrand,
                   threatIndicators |->
                       SetSpread(urlAnalysis.suspicions \o ArrayOr(aiAnalysis, "issues")),
                   analysisDetails |-> [urlAnalysis |-> urlAnalysis,
                                        aiAnalysis |-> aiAnalysis,
                                        method |-> "hybrid-vision-ai"],
                   blockchainHash |-> HashToken,
                   timestamp |-> TimeToken]])

\* analyze-logo, heuristic only
LogoHeuristicResponse(imageUrl, heuristic) ==
    [status |-> 200,
     body |-> [imageUrl |-> IF imageUrl # "" THEN imageUrl ELSE "base64-image",
               result |-> heuristic.verdict,
               confidence4 |-> 4 * heuristic.probability,
               detectedBrand |-> heuristic.detectedBrand,
               threatIndicators |-> SetSpread(heuristic.issues),
               analysisDetails |-> [urlAnalysis |-> [suspicions |-> heuristic.issues,
                                                     detectedBrand |-> heuristic.detectedBrand],
                                    isAuthentic |-> heuristic.verdict = "safe",
                                    method |-> "heuristic-logo-v2"],
               blockchainHash |-> HashToken,
               timestamp |-> TimeToken]]

\* the threatIndicators of the heuristic email handler, before the Set
EmailHeuristicIndicators(calc) ==
    (IF calc.breakdown.sender > 0 THEN <<"Suspicious sender pattern">> ELSE <<>>)
    \o (IF calc.breakdown.subject > 0 THEN <<"High-risk subject keywords">> ELSE <<>>)
    \o (IF calc.breakdown.body > 0 THEN <<"High-risk body keywords">> ELSE <<>>)
    \o (IF calc.breakdown.tld > 0 THEN <<"Non-.com sender domain">> ELSE <<>>)
    \o (IF calc.flags.isOfficial /\ calc.result = "safe"
        THEN <<"Official sender domain">> ELSE <<>>)

\* analyze-email, heuristic only
EmailHeuristicResponse(sender, subject, calc) ==
    [status |-> 200,
     body |-> [sender |-> sender,
               subject |-> subject,
               result |-> calc.result,
               confidence4 |-> 4 * calc.probability,
               threatIndicators |-> Slice0(SetSpread(EmailHeuristicIndicators(calc)), 8),
               analysisDetails |-> [features |-> [senderDomain |-> calc.senderDomain,
                                                  rawScore |-> calc.rawScore,
                                                  breakdown |-> calc.breakdown,
                                                  flags |-> calc.flags],
                                    ruleBasedScore4 |-> 4 * calc.probability,
                                    aiScore |-> calc.probability,
                                    combinedScore |-> calc.probability,
                                    method |-> "email-heuristic-v2"],
               blockchainHash |-> HashToken,
               timestamp |-> TimeToken]]

(***************************************************************************)
(* Requests and oracle replies the handlers are exercised with.  An absent *)
(* field of a request body is "".                                          *)
(***************************************************************************)
UrlInputs ==
    {"http://192.168.1.5/paypal-login-verify",
     "https://www.amazon.com/gp/help",
     "httpbin.org/login",
     "example.org/docs",
     "https://example.org/verify",
     "https://example.org/docs/page/docs/page/docs/page/docs/page/docs/page/docs/page/docs/page/docs/page/index.ht",
     "https://paypal-secure.evil.xyz/signin",
     ""}

\* typeofUrl is typeof url; a url that is not a string is the number 42
UrlRequests ==
    {[url |-> u, typeofUrl |-> IF u = "" THEN "undefined" ELSE "string"] : u \in UrlInputs}
    \cup {[url |-> "42", typeofUrl |-> "number"]}

EmailRequests ==
    {[sender |-> "support@paypal-security.net",
      subject |-> "URGENT: Verify Now",
      body |-> "Your account is suspended. Click here immediately: http://paypal-verify.xyz/login"],
     [sender |-> "no-reply@paypal.com",
      subject |-> "Receipt for your payment",
      body |-> "Thanks for your purchase. Your receipt is attached."],
     [sender |-> "billing@shop-mail.com",
      subject |-> "Action required: confirm your account",
      body |-> "Please confirm your password today to keep your account."],
     [sender |-> "friend@example.org",
      subject |-> "",
      body |-> "See you tomorrow."]}

LogoRequests ==
    {[imageUrl |-> "https://evil.example/paypal/logo.png", base64Image |-> ""],
     [imageUrl |-> "https://paypal-login.evil.com/logo.png", base64Image |-> ""],
     [imageUrl |-> "https://evil.com/paypal.com/logo.png", base64Image |-> ""],
     [imageUrl |-> "https://cdn.evil.example/amazon-logo.png", base64Image |-> ""],
     [imageUrl |-> "https://www.paypalobjects.com/webstatic/icon/pp258.png", base64Image |-> ""],
     [imageUrl |-> "https://static.example.org/assets/images/brand/logo-main-large.png",
      base64Image |-> ""],
     [imageUrl |-> "https://images-na.ssl-images.amazon.com/images/G/01/gno/sprites/nav.png",
      base64Image |-> ""],
     [imageUrl |-> "", base64Image |-> "data:image/png;base64,iVBORw0KGgo="],
     [imageUrl |-> "https://www.paypalobjects.com/webstatic/icon/pp258.png",
      base64Image |-> "data:image/png;base64,iVBORw0KGgo="],
     [imageUrl |-> "", base64Image |-> ""]}

\* message contents the oracle may send: the requested JSON, JSON with a zero
\* confidence, prose without an object, an object that is not JSON, JSON
\* without the boolean verdict, JSON with many and repeated threats, prose
\* around an object, an object followed by prose that holds braces
AiContents ==
    <<"{\"isPhishing\":true,\"confidence\":90,\"reasoning\":\"Brand impersonation\",\"additionalThreats\":[\"Typosquatting domain\"]}",
      "{\"isPhishing\":false,\"confidence\":95,\"reasoning\":\"Legitimate domain\",\"additionalThreats\":[]}",
      "{\"isPhishing\":true,\"confidence\":0}",
      "{\"isPhishing\":false,\"confidence\":0}",
      "{\"isPhishing\":true,\"confidence\":64}",
      "{\"isPhishing\":true,\"confidence\":10,\"reasoning\":\"Weak signal\"}",
      "{\"isPhishing\":true,\"confidence\":85,\"reasoning\":\"Credential lure\",\"tactics\":[\"Urgency\"],\"redFlags\":[\"Mismatched sender\"]}",
      "I cannot analyze this request.",
      "{isPhishing: maybe}",
      "{\"brandDetected\":\"paypal\",\"isAuthentic\":true,\"confidence\":88,\"issues\":[],\"reasoning\":\"Matches the official logo\"}",
      "{\"brandDetected\":\"paypal\",\"isAuthentic\":false,\"confidence\":91,\"issues\":[\"Wrong brand colors\",\"Pixelated edges\"],\"reasoning\":\"Counterfeit logo\"}",
      "{\"confidence\":90,\"reasoning\":\"Login form on an unrelated domain\",\"additionalThreats\":[\"Fake login form\"]}",
      "{\"isPhishing\":true,\"confidence\":80,\"reasoning\":\"Insecure HTTP connection\",\"additionalThreats\":[\"Insecure HTTP connection\",\"Typosquatting domain\",\"Typosquatting domain\",\"Credential form\",\"Brand impersonation\",\"Recently registered domain\",\"Hidden redirect\",\"Obfuscated script\"]}",
      "{\"isPhishing\":true,\"confidence\":80,\"reasoning\":\"Credential lure\",\"tactics\":[\"Urgency\",\"Authority\",\"Fear\",\"Urgency\"],\"redFlags\":[\"Mismatched sender\",\"Generic greeting\",\"Urgency\",\"Shortened link\",\"Odd hours\"]}",
      "Here is my analysis: {\"isPhishing\":false,\"confidence\":95,\"reasoning\":\"Legitimate domain\",\"additionalThreats\":[]} Ask me for more detail.",
      "{\"isPhishing\":true,\"confidence\":90,\"reasoning\":\"Brand impersonation\",\"additionalThreats\":[\"Typosquatting domain\"]} The confidence is on the scale {0..100}.">>

\* the text of an HTTP body: json says whether aiResponse.json() can parse it,
\* hasContent whether choices[0].message.content is there
ContentBody(c) == [json |-> TRUE, hasContent |-> TRUE, content |-> c]

NoContentBody == [json |-> TRUE, hasContent |-> FALSE, content |-> ""]

NotJsonBody == [json |-> FALSE, hasContent |-> FALSE, content |-> ""]

OracleReplies ==
    {[ok |-> TRUE, status |-> 200, body |-> ContentBody(AiContents[i])] :
        i \in 1..Len(AiContents)}
    \cup {[ok |-> TRUE, status |-> 200, body |-> NoContentBody],
          [ok |-> TRUE, status |-> 200, body |-> NotJsonBody],
          [ok |-> FALSE, status |-> 429, body |-> NotJsonBody],
          [ok |-> FALSE, status |-> 500, body |-> NotJsonBody]}

(***************************************************************************)
(* The request handlers.  One request is followed from its arrival to its  *)
(* response: pc is the handler's position ("awaitFetch" is the await on    *)
(* fetch), net the exchange with the oracle, resp the Response returned,   *)
(* log what console.error wrote.                                           *)
(***************************************************************************)
VARIABLES pc, analyzer, req, apiKey, features, ruleBasedScore, threats,
          net, aiAnalysis, resp, log

\* the dashboard's useScans hook: its prop and state, its calls in flight,
\* the scans table, the realtime channels and the last toast
VARIABLES userId, mounted, scans, isLoading, currentResult, calls, fetches,
          deletes, table, channels, events, toast

\* the Navbar component: its state, the auth session, and its timers and
\* queries in flight
VARIABLES user, isAdmin, session, sessionRead, timers, adminChecks, signingOut

scansVars == <<userId, mounted, scans, isLoading, currentResult, calls, fetches,
               deletes, table, channels, events, toast>>

navVars == <<user, isAdmin, session, sessionRead, timers, adminChecks, signingOut>>

vars == <<pc, analyzer, req, apiKey, features, ruleBasedScore, threats,
          net, aiAnalysis, resp, log, scansVars, navVars>>

\* the browser after the first render: the hook has no user yet, the Navbar
\* has subscribed to the auth events and awaits getSession
NoCall == [pc |-> "idle"]

NoToast == [message |-> "", about |-> 0]

InitScans ==
    /\ userId = ""
    /\ mounted = TRUE
    /\ scans = <<>>
    /\ isLoading = FALSE
    /\ currentResult = EmptyObject
    /\ calls = <<NoCall, NoCall>>
    /\ fetches = <<>>
    /\ deletes = {}
    /\ table = {}
    /\ channels = <<>>
    /\ events = {}
    /\ toast = NoToast

InitNavbar ==
    /\ user = ""
    /\ isAdmin = FALSE
    /\ session = ""
    /\ sessionRead = "pending"
    /\ timers = {}
    /\ adminChecks = {}
    /\ signingOut = FALSE

NoExchange == [state |-> "none"]

Pending == [state |-> "pending"]

Rejected == [state |-> "rejected"]

Answered(reply) ==
    [state |-> "response", ok |-> reply.ok, status |-> reply.status, body |-> reply.body]

KeyMissingMessage == "LOVABLE_API_KEY is not configured"

FetchFailedMessage == "error sending request"

BodyNotJsonMessage == "Unexpected token in JSON"

Init ==
    /\ pc = "idle"
    /\ analyzer = "none"
    /\ req = EmptyObject
    /\ apiKey \in BOOLEAN
    /\ features = EmptyObject
    /\ ruleBasedScore = 0
    /\ threats = <<>>
    /\ net = NoExchange
    /\ aiAnalysis = EmptyObject
    /\ resp = NoResponse
    /\ log = <<>>
    /\ InitScans
    /\ InitNavbar

\* the validation of the request body, true when the request is refused
\* !url || typeof url !== "string"
UrlRefused(r) == r.url = "" \/ r.typeofUrl # "string"

\* a faulty validation, && for ||: it refuses only a body without any field
EmailRefusedWhenAllMissing(r) == r.sender = "" /\ r.subject = "" /\ r.body = ""

\* !sender || !subject || !body
EmailRefused(r) == r.sender = "" \/ r.subject = "" \/ r.body = ""

\* !imageSource, with imageSource = imageUrl || base64Image
LogoRefused(r) == r.imageUrl = "" /\ r.base64Image = ""

\* the handler returns at once: validation error, or the throw on a missing key
Return(response, logged) ==
    /\ pc' = "done"
    /\ resp' = response
    /\ log' = log \o logged
    /\ UNCHANGED <<features, ruleBasedScore, threats, net, aiAnalysis>>

\* the handler computes the rule analysis and awaits fetch
CallOracle(f, scored) ==
    /\ pc' = "awaitFetch"
    /\ features' = f
    /\ ruleBasedScore' = scored.score4
    /\ threats' = scored.threats
    /\ net' = Pending
    /\ UNCHANGED <<aiAnalysis, resp, log>>

\* analyze-url up to the await
ReceiveUrl(r) ==
    /\ pc = "idle"
    /\ analyzer' = "url"
    /\ req' = r
    /\ UNCHANGED <<apiKey, scansVars, navVars>>
    /\ IF UrlRefused(r)
       THEN Return(ErrorResponse(400, "URL is required"), <<>>)
       ELSE IF ~apiKey
       THEN Return(ErrorResponse(500, KeyMissingMessage), <<"Analysis error:">>)
       ELSE \E f \in {extractUrlFeatures(r.url)} :
                CallOracle(f, calculateRiskScore(f))

\* analyze-email up to the await
ReceiveEmail(r) ==
    /\ pc = "idle"
    /\ analyzer' = "email"
    /\ req' = r
    /\ UNCHANGED <<apiKey, scansVars, navVars>>
    /\ IF EmailRefused(r)
       THEN Return(ErrorResponse(400, "Sender, subject, and body are required"), <<>>)
       ELSE IF ~apiKey
       THEN Return(ErrorResponse(500, KeyMissingMessage), <<"Email analysis error:">>)
       ELSE \E f \in {extractEmailFeatures(r.sender, r.subject, r.body)} :
                CallOracle(f, calculateEmailRiskScore(f))

\* analyze-logo (vision) up to the await; features holds urlAnalysis
ReceiveLogoVision(r) ==
    /\ pc = "idle"
    /\ analyzer' = "logo-vision"
    /\ req' = r
    /\ UNCHANGED <<apiKey, scansVars, navVars>>
    /\ IF LogoRefused(r)
       THEN Return(ErrorResponse(400, "Image URL or base64 image is required"), <<>>)
       ELSE IF ~apiKey
       THEN Return(ErrorResponse(500, KeyMissingMessage), <<"Logo analysis error:">>)
       ELSE /\ pc' = "awaitFetch"
            /\ features' = IF r.imageUrl # "" THEN analyzeImageUrl(r.imageUrl)
                           ELSE [suspicions |-> <<>>, detectedBrand |-> ""]
            /\ net' = Pending
            /\ UNCHANGED <<ruleBasedScore, threats, aiAnalysis, resp, log>>

\* analyze-logo (heuristic): the whole handler, it calls no oracle
ReceiveLogoHeuristic(r) ==
    /\ pc = "idle"
    /\ analyzer' = "logo-heuristic"
    /\ req' = r
    /\ UNCHANGED <<apiKey, scansVars, navVars>>
    /\ IF LogoRefused(r)
       THEN Return(ErrorResponse(400, "Image URL or base64 image is required"), <<>>)
       ELSE Return(LogoHeuristicResponse(r.imageUrl, calcLogoHeuristic(r)), <<>>)

\* analyze-email (heuristic): the whole handler, it calls no oracle
ReceiveEmailHeuristic(r) ==
    /\ pc = "idle"
    /\ analyzer' = "email-heuristic"
    /\ req' = r
    /\ UNCHANGED <<apiKey, scansVars, navVars>>
    /\ IF EmailRefused(r)
       THEN Return(ErrorResponse(400, "Sender, subject, and body are required"), <<>>)
       ELSE Return(EmailHeuristicResponse(r.sender, r.subject,
                                          calcEmailScore(r.sender, r.subject, r.body)),
                   <<>>)

\* the oracle answers the pending call, or the call fails in the network
OracleResponds(reply) ==
    /\ net = Pending
    /\ net' = Answered(reply)
    /\ UNCHANGED <<pc, analyzer, req, apiKey, features, ruleBasedScore, threats,
                   aiAnalysis, resp, log, scansVars, navVars>>

OracleRejects ==
    /\ net = Pending
    /\ net' = Rejected
    /\ UNCHANGED <<pc, analyzer, req, apiKey, features, ruleBasedScore, threats,
                   aiAnalysis, resp, log, scansVars, navVars>>

\* the handler resumes after the await and returns
Respond(analysis, response, logged) ==
    /\ pc' = "done"
    /\ aiAnalysis' = analysis
    /\ resp' = response
    /\ log' = log \o logged
    /\ UNCHANGED <<analyzer, req, apiKey, features, ruleBasedScore, threats, net,
                   scansVars, navVars>>

\* the parsed match of the message content, as [found, ok, value]
ParsedContent(body) ==
    With(JsonMatch(AiContentOf(body)), LAMBDA jsonMatch :
    With(JsonParse(jsonMatch.text), LAMBDA parsed :
       [found |-> jsonMatch.found,
         ok |-> jsonMatch.found /\ parsed.ok,
         value |-> parsed.value]))

UrlParseFailure ==
    [isPhishing |-> FALSE, confidence |-> 50, reasoning |-> "Unable to parse AI response"]

\* analyze-url: aiAnalysis of a 2xx reply whose body is JSON
UrlAiAnalysis(body) ==
    With(ParsedContent(body), LAMBDA parsed :
       IF ~parsed.found THEN EmptyObject
        ELSE IF parsed.ok THEN parsed.value
        ELSE UrlParseFailure)

\* analyze-url from the await to the response
ResumeUrl ==
    /\ pc = "awaitFetch"
    /\ analyzer = "url"
    /\ net.state \in {"response", "rejected"}
    /\ IF net.state = "rejected"
       THEN Respond(aiAnalysis, ErrorResponse(500, FetchFailedMessage),
                    <<"Analysis error:">>)
       ELSE IF ~net.ok
       THEN Respond(aiAnalysis,
                    UrlFallbackResponse(req.url, features, ruleBasedScore, threats),
                    <<"AI API error:">>)
       ELSE IF ~net.body.json
       THEN Respond(aiAnalysis, ErrorResponse(500, BodyNotJsonMessage),
                    <<"Analysis error:">>)
       ELSE \E analysis \in {UrlAiAnalysis(net.body)} :
                Respond(analysis,
                        UrlHybridResponse(req.url, features, ruleBasedScore, threats,
                                          analysis),
                        <<>>)

EmailDefaultAnalysis ==
    [isPhishing |-> FALSE, confidence |-> 50, reasoning |-> "",
     tactics |-> <<>>, redFlags |-> <<>>]

\* analyze-email: aiAnalysis of a 2xx reply whose body is JSON
EmailAiAnalysis(body) ==
    With(ParsedContent(body), LAMBDA parsed :
       IF parsed.ok THEN parsed.value ELSE EmailDefaultAnalysis)

\* analyze-email from the await to the response
ResumeEmail ==
    /\ pc = "awaitFetch"
    /\ analyzer = "email"
    /\ net.state \in {"response", "rejected"}
    /\ IF net.state = "rejected"
       THEN Respond(aiAnalysis, ErrorResponse(500, FetchFailedMessage),
                    <<"Email analysis error:">>)
       ELSE IF net.ok /\ ~net.body.json
       THEN Respond(aiAnalysis, ErrorResponse(500, BodyNotJsonMessage),
                    <<"Email analysis error:">>)
       ELSE \E analysis \in {IF net.ok THEN EmailAiAnalysis(net.body)
                               ELSE EmailDefaultAnalysis},
               parsed \in {ParsedContent(net.body)} :
                Respond(analysis,
                        EmailResponse(req.sender, req.subject, features,
                                      ruleBasedScore, threats, analysis),
                        IF net.ok /\ parsed.found /\ ~parsed.ok
                        THEN <<"Failed to parse AI response">> ELSE <<>>)

LogoDefaultAnalysis(urlAnalysis) ==
    [brandDetected |-> urlAnalysis.detectedBrand, isAuthentic |-> TRUE,
     confidence |-> 50, issues |-> <<>>, reasoning |-> "Unable to analyze"]

\* analyze-logo (vision): aiAnalysis of a 2xx reply whose body is JSON
LogoAiAnalysis(urlAnalysis, body) ==
    With(ParsedContent(body), LAMBDA parsed :
       IF parsed.ok THEN parsed.value ELSE LogoDefaultAnalysis(urlAnalysis))

\* analyze-logo (vision) from the await to the response
ResumeLogoVision ==
    /\ pc = "awaitFetch"
    /\ analyzer = "logo-vision"
    /\ net.state \in {"response", "rejected"}
    /\ IF net.state = "rejected"
       THEN Respond(aiAnalysis, ErrorResponse(500, FetchFailedMessage),
                    <<"Logo analysis error:">>)
       ELSE IF net.ok /\ ~net.body.json
       THEN Respond(aiAnalysis, ErrorResponse(500, BodyNotJsonMessage),
                    <<"Logo analysis error:">>)
       ELSE \E analysis \in {IF net.ok THEN LogoAiAnalysis(features, net.body)
                               ELSE LogoDefaultAnalysis(features)},
               parsed \in {ParsedContent(net.body)} :
                Respond(analysis,
                        LogoVisionResponse(req.imageUrl, features, analysis),
                        IF ~net.ok THEN <<"AI API error:">>
                        ELSE IF parsed.found /\ ~parsed.ok
                        THEN <<"Failed to parse AI response:">> ELSE <<>>)

Next ==
    \/ \E r \in UrlRequests : ReceiveUrl(r)
    \/ \E r \in EmailRequests : ReceiveEmail(r)
    \/ \E r \in LogoRequests : ReceiveLogoVision(r)
    \/ \E r \in LogoRequests : ReceiveLogoHeuristic(r)
    \/ \E r \in EmailRequests : ReceiveEmailHeuristic(r)
    \/ \E reply \in OracleReplies : OracleResponds(reply)
    \/ OracleRejects
    \/ ResumeUrl
    \/ ResumeEmail
    \/ ResumeLogoVision

Spec == Init /\ [][Next]_vars

(***************************************************************************)
(* Liveness: the runtime resumes a handler whose await has settled, so the *)
(* handler steps are weakly fair.  Nothing obliges the oracle to answer,   *)
(* and fetch is called without a timeout or an abort signal.               *)
(***************************************************************************)
HandlerStep == ResumeUrl \/ ResumeEmail \/ ResumeLogoVision

LiveSpec == Spec /\ WF_vars(HandlerStep)

(***************************************************************************)
(* The combiner on its own: every rule score (quarter points, 0..100) and  *)
(* every oracle object with isPhishing and a confidence in 0..100, or      *)
(* without a confidence, or {}.                                            *)
(***************************************************************************)
RuleScores4 == 0..(4 * 100)

OracleObjects ==
    {[isPhishing |-> b, confidence |-> c] : b \in BOOLEAN, c \in 0..100}
    \cup {[isPhishing |-> b] : b \in BOOLEAN}
    \cup {EmptyObject}

InitCombine ==
    /\ pc = "combine"
    /\ analyzer \in {"url", "email"}
    /\ req = IF analyzer = "url" THEN [url |-> "u", typeofUrl |-> "string"]
             ELSE [sender |-> "s", subject |-> "t", body |-> "b"]
    /\ apiKey = TRUE
    /\ features = EmptyObject
    /\ ruleBasedScore \in RuleScores4
    /\ threats = <<>>
    /\ net = NoExchange
    /\ aiAnalysis \in OracleObjects
    /\ resp = NoResponse
    /\ log = <<>>
    /\ InitScans
    /\ InitNavbar

\* analyze-url from aiScore to the response
CombineUrl ==
    /\ pc = "combine"
    /\ analyzer = "url"
    /\ Respond(aiAnalysis,
               UrlHybridResponse(req.url, features, ruleBasedScore, threats, aiAnalysis),
               <<>>)

\* analyze-url, the response built when the oracle's status is not 2xx
FallbackUrl ==
    /\ pc = "combine"
    /\ analyzer = "url"
    /\ aiAnalysis = EmptyObject
    /\ Respond(aiAnalysis,
               UrlFallbackResponse(req.url, features, ruleBasedScore, threats),
               <<"AI API error:">>)

\* analyze-email from aiScore to the response
CombineEmail ==
    /\ pc = "combine"
    /\ analyzer = "email"
    /\ Respond(aiAnalysis,
               EmailResponse(req.sender, req.subject, features, ruleBasedScore,
                             threats, aiAnalysis),
               <<>>)

NextCombine == CombineUrl \/ FallbackUrl \/ CombineEmail

SpecCombine == InitCombine /\ [][NextCombine]_vars

(***************************************************************************)
(* Properties.  Vocabulary first: the ways an oracle call can fail, and    *)
(* what a response carries.                                                *)
(***************************************************************************)
Done == pc = "done"

Succeeded == Done /\ resp.status = 200

OracleAnalyzers == {"url", "email", "logo-vision"}

NetworkFailure == net.state = "rejected"

Non2xx == net.state = "response" /\ ~net.ok

BodyNotJson == net.state = "response" /\ net.ok /\ ~net.body.json

\* a 2xx JSON body without message content, or whose content holds no JSON
\* object, or an object that does not parse
ContentUnusable ==
    /\ net.state = "response"
    /\ net.ok
    /\ net.body.json
    /\ \/ ~net.body.hasContent
       \/ ~ParsedContent(net.body).ok

OracleFailed == NetworkFailure \/ Non2xx \/ BodyNotJson \/ ContentUnusable

ResultFields ==
    {"result", "confidence4", "threatIndicators", "analysisDetails",
     "blockchainHash", "timestamp"}

\* the method tag of a response built with the oracle's answer
HybridTag ==
    CASE analyzer = "url" -> "hybrid-ai"
      [] analyzer = "email" -> "hybrid-email-ai"
      [] analyzer = "logo-vision" -> "hybrid-vision-ai"

\* C1: in the URL, email and logo analyzers an oracle call that fails (fetch
\* rejects, non-2xx status, body not of the expected schema) never produces
\* an error response: the handler answers with a successful result carrying
\* a verdict, and the failure is logged.
OracleFailureNeverAnError ==
    (Done /\ analyzer \in OracleAnalyzers /\ OracleFailed)
        => /\ resp.status = 200
           /\ "result" \in DOMAIN resp.body
           /\ log # <<>>

\* C1, the failing case: fetch rejected and the URL handler answered 500
FetchRejectedAnswered500 ==
    /\ Done
    /\ analyzer = "url"
    /\ NetworkFailure
    /\ resp.status = 500
    /\ "result" \notin DOMAIN resp.body

\* C2: every request that passed validation and called the oracle eventually
\* receives a response, even when the oracle never answers.
AwaitingRequestIsAnswered == (pc = "awaitFetch") ~> Done

\* C2, the state the handler stays in: awaiting a call that is still pending
AwaitingPendingCall == pc = "awaitFetch" /\ net = Pending

\* C3: when the oracle call fails, a successful URL or email result has every
\* field of a normal result (verdict, confidence, threatIndicators, analysis
\* details, integrity tag, timestamp) and a method tag different from the
\* tag used when the oracle answered.
FailureResultCompleteAndTagged ==
    (Succeeded /\ analyzer \in {"url", "email"} /\ OracleFailed)
        => /\ ResultFields \subseteq DOMAIN resp.body
           /\ resp.body.analysisDetails.method # HybridTag

\* C3, the failing cases: the URL fallback result without integrity tag and
\* timestamp, and the email result of a failed call tagged as hybrid
UrlFallbackWithoutTagAndTime ==
    /\ Succeeded
    /\ analyzer = "url"
    /\ Non2xx
    /\ resp.body.analysisDetails.method = "rule-based"
    /\ "blockchainHash" \notin DOMAIN resp.body
    /\ "timestamp" \notin DOMAIN resp.body

\* the signal the combiner is to receive for a failed call
NeutralSignal == [isPhishing |-> FALSE, confidence |-> 50]

\* the response the handler builds from the request's rule analysis and the
\* neutral signal
NeutralResponse ==
    CASE analyzer = "url" ->
             UrlHybridResponse(req.url, features, ruleBasedScore, threats, NeutralSignal)
      [] analyzer = "email" ->
             EmailResponse(req.sender, req.subject, features, ruleBasedScore, threats,
                           NeutralSignal)
      [] analyzer = "logo-vision" ->
             LogoVisionResponse(req.imageUrl, features, LogoDefaultAnalysis(features))

\* C4: whatever way the oracle fails, the result is the one of the neutral
\* signal (not positive, confidence 50, no extra threats): for a fixed
\* artifact the verdict and the reported confidence are the same for every
\* failure mode.
EveryFailureGivesNeutralResult ==
    (Succeeded /\ analyzer \in OracleAnalyzers /\ OracleFailed)
        => /\ resp.body.result = NeutralResponse.body.result
           /\ resp.body.confidence4 = NeutralResponse.body.confidence4

\* C4, a failing case: the URL analyzer answers a non-2xx status with the
\* verdict of the rule score alone, which is not the neutral signal's verdict
Non2xxVerdictFromRuleScoreAlone ==
    /\ Succeeded
    /\ analyzer = "url"
    /\ Non2xx
    /\ resp.body.result = "phishing"
    /\ NeutralResponse.body.result = "suspicious"

\* C5: for every rule score in 0..100 and every oracle reply whose confidence
\* is in 0..100, the confidence of a successful URL or email result is in
\* 0..100, on the hybrid path and on the rule-based fallback path.
ConfidenceWithinRange ==
    (Succeeded
        /\ analyzer \in {"url", "email"}
        /\ (resp.body.analysisDetails.method = "rule-based"
              \/ (Has(aiAnalysis, "confidence") /\ aiAnalysis.confidence \in 0..100)))
        => (resp.body.confidence4 >= 0 /\ resp.body.confidence4 <= 4 * 100)

\* C5, a failing case: a URL result reporting a confidence above 100
UrlConfidenceAbove100 ==
    /\ Succeeded
    /\ analyzer = "url"
    /\ Has(aiAnalysis, "confidence")
    /\ aiAnalysis.confidence \in 0..100
    /\ resp.body.confidence4 > 4 * 100

\* 0.4 * ruleScore + 0.6 * oracleScaled in exact arithmetic, times ten
\* (ruleScore in quarter points, oracleScaled in half points)
ExactCombined10(r4, a2) == r4 + 3 * a2

ExactVerdict(r4, a2) ==
    IF ExactCombined10(r4, a2) >= 10 * 50 THEN "phishing"
    ELSE IF ExactCombined10(r4, a2) >= 10 * 25 THEN "suspicious"
    ELSE "safe"

\* C6: in the URL and email analyzers the verdict is decided by
\* combined = 0.4 * ruleScore + 0.6 * oracleScaled: phishing from 50 on,
\* suspicious from 25 to below 50, safe below 25; exactly 50 is phishing and
\* exactly 25 is suspicious.
VerdictByCombinedThresholds ==
    (Succeeded
        /\ analyzer \in {"url", "email"}
        /\ resp.body.analysisDetails.method # "rule-based")
        => resp.body.result = ExactVerdict(ruleBasedScore, AiScore2(aiAnalysis))

\* C6, the failing case: rule score 2, a positive oracle with confidence 64,
\* so 0.4 * 2 + 0.6 * 82 = 50, and the verdict is suspicious
CombinedFiftyIsSuspicious ==
    /\ Succeeded
    /\ analyzer \in {"url", "email"}
    /\ ruleBasedScore = 4 * 2
    /\ aiAnalysis = [isPhishing |-> TRUE, confidence |-> 64]
    /\ ExactCombined10(ruleBasedScore, AiScore2(aiAnalysis)) = 10 * 50
    /\ resp.body.result = "suspicious"

\* C7: for every oracle confidence c in 0..100, c = 0 included, the oracle
\* signal is mapped to 50 + c/2 when positive and to 50 - c/2 when negative
\* (the result reports the mapped value rounded).
OracleSignalScaled ==
    (Succeeded
        /\ analyzer \in {"url", "email"}
        /\ resp.body.analysisDetails.method # "rule-based"
        /\ Has(aiAnalysis, "isPhishing")
        /\ Has(aiAnalysis, "confidence")
        /\ aiAnalysis.confidence \in 0..100)
        => resp.body.analysisDetails.aiScore =
               MathRound20(10 * (IF aiAnalysis.isPhishing
                                 THEN 100 + aiAnalysis.confidence
                                 ELSE 100 - aiAnalysis.confidence))

\* C7, the failing case: confidence 0 with a positive call is mapped to 75
ZeroConfidenceMappedTo75 ==
    /\ Succeeded
    /\ analyzer \in {"url", "email"}
    /\ aiAnalysis = [isPhishing |-> TRUE, confidence |-> 0]
    /\ resp.body.analysisDetails.aiScore = 75

\* the URL a request is about: the URL to analyze, or the logo's image URL
RequestUrl == IF analyzer = "url" THEN req.url ELSE req.imageUrl

HostOn(host, domains) ==
    \E k \in 1..Len(domains) :
        host = domains[k] \/ EndsWith(host, "." \o domains[k])

\* url contains the keyword of a brand that has an official-domain list, and
\* its host is not on that list
BrandSpoof(url) ==
    \E parsed \in {ParseUrl(UrlToParse(url))}, low \in {ToLowerCase(url)} :
        /\ parsed.ok
        /\ \E k \in 1..Len(knownBrandSignatures) :
               /\ officialDomains(knownBrandSignatures[k]) # <<>>
               /\ Includes(low, knownBrandSignatures[k])
               /\ ~HostOn(ToLowerCase(parsed.hostname),
                          officialDomains(knownBrandSignatures[k]))

\* C8: a URL or logo image URL that contains a known brand keyword and whose
\* host is not on that brand's official-domain list gets the verdict
\* phishing, whatever the other rule signals and whatever the oracle says.
BrandSpoofIsPhishing ==
    (Succeeded
        /\ analyzer \in {"url", "logo-vision", "logo-heuristic"}
        /\ RequestUrl # ""
        /\ BrandSpoof(RequestUrl))
        => resp.body.result = "phishing"

\* C8, failing cases: a logo with the brand inside a non-official host name
\* that the heuristic analyzer leaves unknown, and a brand logo on a foreign
\* host that the vision analyzer calls safe
BrandInForeignHostNotPhishing ==
    /\ Succeeded
    /\ analyzer = "logo-heuristic"
    /\ req.imageUrl = "https://paypal-login.evil.com/logo.png"
    /\ BrandSpoof(req.imageUrl)
    /\ resp.body.result = "unknown"

\* C9: a URL whose host is on the known-safe domain list and that triggers no
\* other rule gets the verdict safe, a positive low score, and no threat
\* indicator (the analyzers emit no safe-domain note, so none at all); the
\* URL https://www.amazon.com/gp/help is such an input.  For a logo image
\* URL the fixed score is 8.
SafeDomainUrlIsSafe ==
    /\ (Succeeded
          /\ analyzer = "url"
          /\ hasSafeDomain(UrlToParse(req.url))
          /\ (threats = <<>> \/ req.url = "https://www.amazon.com/gp/help"))
          => /\ resp.body.result = "safe"
             /\ resp.body.threatIndicators = <<>>
             /\ resp.body.confidence4 > 0
    /\ (Succeeded
          /\ analyzer = "logo-heuristic"
          /\ req.imageUrl # ""
          /\ hasSafeDomain(req.imageUrl)
          /\ LogoHeuristicSignals(req).score = 0)
          => /\ resp.body.result = "safe"
             /\ resp.body.threatIndicators = <<>>
             /\ resp.body.confidence4 = 4 * 8

\* C9, the failing case: the help page of amazon.com reported with the
\* keyword threat, and as phishing when the oracle says so
SafeDomainUrlReportedPhishing ==
    /\ Succeeded
    /\ analyzer = "url"
    /\ req.url = "https://www.amazon.com/gp/help"
    /\ resp.body.result = "phishing"
    /\ \E k \in 1..Len(resp.body.threatIndicators) :
           resp.body.threatIndicators[k] = "Phishing keywords detected: amazon, help"

\* a logo request that triggers no brand or keyword rule and has no
\* safe-domain match: an upload, or an image URL without any signal
NoLogoSignal(r) ==
    \/ r.imageUrl = "" /\ r.base64Image # ""
    \/ /\ r.imageUrl # ""
       /\ r.base64Image = ""
       /\ analyzeImageUrl(r.imageUrl) = [suspicions |-> <<>>, detectedBrand |-> ""]
       /\ ~SomeIncluded(PHISH_KEYWORDS, ToLowerCase(r.imageUrl))
       /\ ~hasSafeDomain(r.imageUrl)

\* C10: a logo request that triggers no brand or keyword rule and has no
\* safe-domain match, in particular an uploaded base64 image, gets the
\* verdict unknown and never safe, whatever the oracle returns or fails.
NoSignalLogoIsUnknown ==
    (Succeeded /\ analyzer \in {"logo-vision", "logo-heuristic"} /\ NoLogoSignal(req))
        => resp.body.result = "unknown"

\* C10, the failing case: the vision analyzer calls an upload safe after the
\* oracle call failed
UploadCalledSafe ==
    /\ Succeeded
    /\ analyzer = "logo-vision"
    /\ req.imageUrl = ""
    /\ req.base64Image # ""
    /\ Non2xx
    /\ resp.body.result = "safe"

\* the fields the prompt of an analyzer requires of the oracle's object
RequiredFields ==
    IF analyzer = "logo-vision" THEN {"isAuthentic", "confidence"}
    ELSE {"isPhishing", "confidence"}

\* the content parsed as JSON, and the object lacks a required field or its
\* confidence is outside 0..100
ReplyInvalid ==
    /\ net.state = "response"
    /\ net.ok
    /\ net.body.json
    /\ net.body.hasContent
    /\ ParsedContent(net.body).ok
    /\ \/ ~(RequiredFields \subseteq DOMAIN ParsedContent(net.body).value)
       \/ ParsedContent(net.body).value.confidence \notin 0..100

\* C11: when the oracle's reply parses as JSON but lacks a required field or
\* carries a confidence outside 0..100, the result is the one of the neutral
\* signal: no field of the reply reaches the verdict, the reported
\* confidence or threatIndicators.
InvalidReplyGivesNeutralResult ==
    (Succeeded /\ analyzer \in OracleAnalyzers /\ ReplyInvalid)
        => /\ resp.body.result = NeutralResponse.body.result
           /\ resp.body.confidence4 = NeutralResponse.body.confidence4
           /\ resp.body.threatIndicators = NeutralResponse.body.threatIndicators

\* C11, the failing case: a reply without the boolean verdict whose extra
\* threat is reported by the URL analyzer
PartialReplyThreatReported ==
    /\ Succeeded
    /\ analyzer = "url"
    /\ ReplyInvalid
    /\ ~Has(aiAnalysis, "isPhishing")
    /\ \E k \in 1..Len(resp.body.threatIndicators) :
           resp.body.threatIndicators[k] = "Fake login form"

\* a required field of the request is missing or empty
RequiredFieldMissing ==
    CASE analyzer = "url" -> req.url = "" \/ req.typeofUrl # "string"
      [] analyzer \in {"email", "email-heuristic"} -> \E f \in {"sender", "subject", "body"} : req[f] = ""
      [] analyzer \in {"logo-vision", "logo-heuristic"} ->
             req.imageUrl = "" /\ req.base64Image = ""
      [] OTHER -> FALSE

\* C12: when a required field is missing or empty (url absent or not a
\* string; any of sender, subject, body absent; neither imageUrl nor
\* base64Image), the handler answers with status 400 and an error message,
\* and neither feature extraction nor the oracle call is performed.
MissingFieldRefused ==
    RequiredFieldMissing
        => /\ pc = "done"
           /\ resp.status = 400
           /\ DOMAIN resp.body = {"error"}
           /\ resp.body.error # ""
           /\ features = EmptyObject
           /\ threats = <<>>
           /\ net = NoExchange

\* C12, its cases: a url that is a number, and an email without subject
NumberUrlRefused ==
    /\ analyzer = "url"
    /\ req.typeofUrl = "number"
    /\ resp = ErrorResponse(400, "URL is required")

EmailWithoutSubjectRefused ==
    /\ analyzer = "email"
    /\ req.subject = ""
    /\ req.sender # ""
    /\ resp = ErrorResponse(400, "Sender, subject, and body are required")

\* C13: a logo request is accepted only when exactly one of imageUrl and
\* base64Image is present: a request carrying both is answered with status
\* 400 and is never analyzed.
LogoWithBothSourcesRefused ==
    (analyzer \in {"logo-vision", "logo-heuristic"}
        /\ req.imageUrl # ""
        /\ req.base64Image # "")
        => /\ pc = "done"
           /\ resp.status = 400
           /\ net = NoExchange

\* C13, the failing case: a request carrying both sources analyzed and
\* answered with a verdict
LogoWithBothSourcesAnalyzed ==
    /\ Succeeded
    /\ analyzer = "logo-heuristic"
    /\ req.imageUrl # ""
    /\ req.base64Image # ""
    /\ resp.body.result = "unknown"
    /\ resp.body.imageUrl = req.imageUrl

NoDuplicates(seq) ==
    \A i, j \in 1..Len(seq) : i # j => seq[i] # seq[j]

\* C14: the threatIndicators list of every successful response contains no
\* two equal strings, on every path: URL hybrid, URL rule-based fallback,
\* email, and logo.
ThreatIndicatorsDistinct ==
    Succeeded => NoDuplicates(resp.body.threatIndicators)

\* C14, its case: the rule threats and the oracle's threats of a URL result
\* held equal strings, and the response lists each once
RepeatedThreatListedOnce ==
    /\ Succeeded
    /\ analyzer = "url"
    /\ resp.body.analysisDetails.method = "hybrid-ai"
    /\ ~NoDuplicates(UrlAllThreats(threats, aiAnalysis, resp.body.result))
    /\ NoDuplicates(resp.body.threatIndicators)

\* the length analyze-email cuts threatIndicators to: slice(0, 8)
MaxThreatIndicators == 8

\* the rule-based threats of the request, in the order the rules pushed them
RuleThreats == IF analyzer = "logo-vision" THEN features.suspicions ELSE threats

\* C15: in every analyzer threatIndicators is the rule-based threats followed
\* by the oracle's threats, each string kept at its first occurrence, cut to
\* the fixed maximum length: it starts with the rule-based threats and is
\* never longer than the maximum, in URL, email and logo results.
ThreatIndicatorsMergedAndCut ==
    (Succeeded /\ analyzer \in OracleAnalyzers)
        => /\ Len(resp.body.threatIndicators) <= MaxThreatIndicators
           /\ NoDuplicates(resp.body.threatIndicators)
           /\ \A k \in 1..Len(resp.body.threatIndicators) :
                  k <= Len(RuleThreats) => resp.body.threatIndicators[k] = RuleThreats[k]

\* C15, the failing case: a URL result listing more indicators than the
\* maximum
UrlResultAboveMaximum ==
    /\ Succeeded
    /\ analyzer = "url"
    /\ Len(resp.body.threatIndicators) > MaxThreatIndicators

\* the email result is cut: more distinct threats than the maximum, and
\* exactly the maximum listed
EmailResultCutToMaximum ==
    /\ Succeeded
    /\ analyzer = "email"
    /\ Len(SetSpread(EmailAllThreats(threats, aiAnalysis, resp.body.result)))
           > MaxThreatIndicators
    /\ Len(resp.body.threatIndicators) = MaxThreatIndicators

\* C16: for every suspicious or phishing verdict of the URL and email
\* analyzers, a combined score exactly at 25 or 50 and an oracle confidence
\* of 100 included, the reported confidence is strictly greater than 50.
NonSafeConfidenceAboveFifty ==
    (Succeeded
        /\ analyzer \in {"url", "email"}
        /\ resp.body.result \in {"suspicious", "phishing"})
        => resp.body.confidence4 > 4 * 50

\* C16, failing cases: an email called suspicious with a confidence below
\* 50, and a URL called phishing on an oracle confidence of 100 with a
\* confidence of exactly 50
SuspiciousEmailBelowFifty ==
    /\ Succeeded
    /\ analyzer = "email"
    /\ resp.body.result = "suspicious"
    /\ resp.body.confidence4 < 4 * 50

PhishingUrlAtFifty ==
    /\ Succeeded
    /\ analyzer = "url"
    /\ aiAnalysis = [isPhishing |-> TRUE, confidence |-> 100]
    /\ resp.body.result = "phishing"
    /\ resp.body.confidence4 = 4 * 50

\* the confidence the analyzer of the current request reports for a rule
\* score and an oracle object
ReportedConfidence(r4, object) ==
    IF analyzer = "url" THEN UrlConfidence(r4, object) ELSE EmailConfidence(r4, object)

\* C17: the reported confidence is monotone in the combined score within a
\* verdict: of two safe results the one with the lower combined score never
\* has the lower confidence, and of two phishing results the one with the
\* higher combined score never has the lower confidence.  The result of the
\* request is compared with the result of every other rule score and oracle
\* object.
ConfidenceMonotoneInCombined ==
    (Succeeded
        /\ analyzer \in {"url", "email"}
        /\ resp.body.analysisDetails.method # "rule-based"
        /\ resp.body.result \in {"safe", "phishing"})
        => \E mine \in {CombinedScore20(ruleBasedScore, AiScore2(aiAnalysis))} :
               \A r4 \in RuleScores4, object \in OracleObjects :
                   \E other \in {CombinedScore20(r4, AiScore2(object))} :
                       (/\ Verdict(other) = resp.body.result
                        /\ IF resp.body.result = "safe" THEN other < mine
                           ELSE other > mine)
                           => 4 * ReportedConfidence(r4, object) >= resp.body.confidence4

\* C17, failing cases of the URL analyzer: a safe result with rule score 24
\* reported with confidence 100 while rule score 0, a lower combined score,
\* gets 95; a phishing result with a lower confidence than one of a lower
\* combined score
SafeUrlWithLowerScoreLessConfident ==
    /\ Succeeded
    /\ analyzer = "url"
    /\ ruleBasedScore = 4 * 24
    /\ aiAnalysis = [isPhishing |-> FALSE, confidence |-> 100]
    /\ resp.body.result = "safe"
    /\ resp.body.confidence4 = 4 * 100
    /\ Verdict(CombinedScore20(0, AiScore2(aiAnalysis))) = "safe"
    /\ CombinedScore20(0, AiScore2(aiAnalysis))
           < CombinedScore20(ruleBasedScore, AiScore2(aiAnalysis))
    /\ UrlConfidence(0, aiAnalysis) = 95

\* the response the other of the two analyzers builds from the rule score
\* and the oracle object of the current request
OtherSiteResponse ==
    IF analyzer = "url"
    THEN EmailResponse("s", "t", features, ruleBasedScore, threats, aiAnalysis)
    ELSE UrlHybridResponse("u", features, ruleBasedScore, threats, aiAnalysis)

\* C18: the combination policy is the same at every call site: given the
\* same rule score and the same oracle signal, the URL analyzer and the
\* email analyzer report the same verdict and the same confidence.
SamePolicyAtBothSites ==
    (Succeeded
        /\ analyzer \in {"url", "email"}
        /\ resp.body.analysisDetails.method # "rule-based")
        => /\ resp.body.result = OtherSiteResponse.body.result
           /\ resp.body.confidence4 = OtherSiteResponse.body.confidence4

\* C18, the failing case: rule score 60 and the neutral signal, for which
\* the URL analyzer reports suspicious with confidence 100 and the email
\* analyzer suspicious with confidence 59
SameInputsOtherConfidence ==
    /\ Succeeded
    /\ analyzer = "url"
    /\ ruleBasedScore = 4 * 60
    /\ aiAnalysis = NeutralSignal
    /\ resp.body.result = "suspicious"
    /\ OtherSiteResponse.body.result = "suspicious"
    /\ resp.body.confidence4 = 4 * 100
    /\ OtherSiteResponse.body.confidence4 = 4 * 59

(***************************************************************************)
(* The rule scorers on their own: feature records as the extractors build  *)
(* them (a keyword flag is set exactly when its list or count is not       *)
(* empty), every combination of the values below.                          *)
(***************************************************************************)
KeywordLists ==
    {<<>>, <<"login">>, <<"login", "verify", "paypal">>,
     <<"login", "verify", "verify", "paypal">>}

UrlFeatureRecords ==
    {[hasIpAddress |-> ip, hasHttps |-> https, hasSuspiciousTld |-> tld,
      hasSuspiciousKeywords |-> kw # <<>>, suspiciousKeywords |-> kw,
      length |-> len, numSubdomains |-> sub, numHyphens |-> hyph,
      numAtSymbols |-> at, hasEncodedChars |-> enc, hasPortNumber |-> port,
      entropy |-> ent, digitRatio |-> dig] :
        ip \in BOOLEAN, https \in BOOLEAN, tld \in BOOLEAN, kw \in KeywordLists,
        len \in {30, 100, 101, 160, 400}, sub \in {0, 3, 4, 7}, hyph \in {0, 3, 4, 8},
        at \in {0, 1}, enc \in BOOLEAN, port \in BOOLEAN,
        ent \in {39232, 45001}, dig \in {0, 3001}}

EmailFeatureRecords ==
    {[isSpoofedDomain |-> spoofed, senderDomain |-> "paypal-security.net",
      hasBrandImpersonation |-> brands # <<>>, impersonatedBrands |-> brands,
      hasUrgencyKeywords |-> urgency > 0, urgencyCount |-> urgency,
      hasVerificationKeywords |-> verification,
      hasThreateningLanguage |-> threatening,
      hasSuspiciousLinks |-> links # <<>>, suspiciousLinks |-> links,
      hasMoneyRelatedContent |-> money, grammarScore |-> grammar] :
        spoofed \in BOOLEAN, brands \in {<<>>, <<"paypal">>, <<"paypal", "bank">>},
        urgency \in {0, 1, 3, 4, 6}, verification \in BOOLEAN, threatening \in BOOLEAN,
        links \in {<<>>, <<"http://paypal-verify.xyz/login">>},
        money \in BOOLEAN, grammar \in {45, 60, 100}}

InitScore ==
    /\ pc = "score"
    /\ analyzer \in {"url", "email"}
    /\ req = EmptyObject
    /\ apiKey = TRUE
    /\ features \in IF analyzer = "url" THEN UrlFeatureRecords ELSE EmailFeatureRecords
    /\ ruleBasedScore = 0
    /\ threats = <<>>
    /\ net = NoExchange
    /\ aiAnalysis = EmptyObject
    /\ resp = NoResponse
    /\ log = <<>>
    /\ InitScans
    /\ InitNavbar

Scored(scored) ==
    /\ pc' = "scored"
    /\ ruleBasedScore' = scored.score4
    /\ threats' = scored.threats
    /\ UNCHANGED <<analyzer, req, apiKey, features, net, aiAnalysis, resp, log,
                   scansVars, navVars>>

\* const { score: ruleBasedScore, threats } = calculateRiskScore(features)
ScoreUrl == pc = "score" /\ analyzer = "url" /\ Scored(calculateRiskScore(features))

ScoreEmail ==
    pc = "score" /\ analyzer = "email" /\ Scored(calculateEmailRiskScore(features))

NextScore == ScoreUrl \/ ScoreEmail

SpecScore == InitScore /\ [][NextScore]_vars

\* the contributions of the rules a feature record triggers, in quarter points
TriggeredSum ==
    SumPoints(IF analyzer = "url" THEN UrlRules(features) ELSE EmailRules(features))

NoRuleNoThreat ==
    /\ pc = "scored"
    /\ analyzer = "email"
    /\ TriggeredSum = 0
    /\ ruleBasedScore = 0
    /\ threats = <<>>

\* C20: for the input http://192.168.1.5/paypal-login-verify the IP-literal
\* rule and the keyword rule fire, threatIndicators includes "IP address
\* used instead of domain name", and the verdict is phishing whenever the
\* oracle is positive or fails (non-2xx status, unparsable reply, reply with
\* no JSON object).
IpPaypalUrlIsPhishing ==
    (Succeeded /\ analyzer = "url" /\ req.url = "http://192.168.1.5/paypal-login-verify")
        => /\ features.hasIpAddress
           /\ features.hasSuspiciousKeywords
           /\ \E k \in 1..Len(resp.body.threatIndicators) :
                  resp.body.threatIndicators[k] = "IP address used instead of domain name"
           /\ (TruthyFlag(aiAnalysis, "isPhishing") \/ Non2xx \/ ContentUnusable)
                  => resp.body.result = "phishing"

\* C20, the failing case: the reply holds no JSON object and the verdict is
\* suspicious
IpPaypalUrlSuspiciousOnProse ==
    /\ Succeeded
    /\ analyzer = "url"
    /\ req.url = "http://192.168.1.5/paypal-login-verify"
    /\ net.state = "response"
    /\ net.ok
    /\ net.body.content = "I cannot analyze this request."
    /\ ruleBasedScore = 4 * 60
    /\ resp.body.result = "suspicious"

(***************************************************************************)
(* C21                                                                     *)
(***************************************************************************)
\* an email from an official sender domain whose subject and body hold none
\* of the high-risk words
OfficialBenignEmail(r) ==
    /\ ~EmailRefused(r)
    /\ \E k \in 1..Len(OFFICIAL_DOMAINS) : OFFICIAL_DOMAINS[k] = getDomain(r.sender)
    /\ ~SomeIncluded(PhishSubjectWords, ToLowerCase(r.subject))
    /\ ~SomeIncluded(PhishBodyWords, ToLowerCase(r.body))

\* C21: the heuristic email analyzer answers an email from an official sender
\* domain with a benign subject and a benign body, such as the receipt from
\* no-reply@paypal.com, with the verdict safe, the confidence 12 and no
\* sender-pattern threat indicator.
OfficialBenignEmailIsSafe12 ==
    (pc = "done" /\ analyzer = "email-heuristic" /\ OfficialBenignEmail(req))
        => /\ resp.status = 200
           /\ resp.body.result = "safe"
           /\ resp.body.confidence4 = 4 * 12
           /\ \A k \in 1..Len(resp.body.threatIndicators) :
                  resp.body.threatIndicators[k] # "Suspicious sender pattern"

\* the receipt from no-reply@paypal.com is answered safe with confidence 20
\* and the sender-pattern indicator
PaypalReceiptAtTwenty ==
    /\ pc = "done" /\ analyzer = "email-heuristic"
    /\ req.sender = "no-reply@paypal.com"
    /\ req.subject = "Receipt for your payment"
    /\ resp.status = 200
    /\ resp.body.result = "safe"
    /\ resp.body.confidence4 = 4 * 20
    /\ resp.body.threatIndicators =
           <<"Suspicious sender pattern", "Official sender domain">>

(***************************************************************************)
(* C22                                                                     *)
(***************************************************************************)
\* the distinct dictionary keywords the lowered url contains
MatchedKeywords(url) ==
    With(ToLowerCase(url), LAMBDA low :
        {suspiciousKeywords[k] : k \in {j \in 1..Len(suspiciousKeywords) :
                                            Includes(low, suspiciousKeywords[j])}})

\* the keyword rule of calculateRiskScore, the fourth of its rules
KeywordRule == UrlRules(features)[4]

\* C22: the keyword rule of the URL rule scorer adds 8 points per distinct
\* matched dictionary keyword, capped at 25, so min(25, 8*k) for a URL that
\* matches exactly k distinct keywords (8 when "verify" is the only one), and
\* the emitted threat string lists no keyword twice.
KeywordRuleCountsDistinctKeywords ==
    (analyzer = "url" /\ pc # "idle" /\ features # EmptyObject)
        => /\ KeywordRule.points4
                  = 4 * Min(25, 8 * Cardinality(MatchedKeywords(req.url)))
           /\ NoDuplicates(Slice0(features.suspiciousKeywords, 3))
           /\ \A k \in 1..Len(KeywordRule.threats) :
                  \E n \in 1..Len(threats) : threats[n] = KeywordRule.threats[k]

\* a URL whose only matched keyword is "verify" scores 16 and its threat
\* string names the keyword twice
VerifyCountedTwice ==
    /\ analyzer = "url" /\ pc = "awaitFetch"
    /\ req.url = "https://example.org/verify"
    /\ MatchedKeywords(req.url) = {"verify"}
    /\ ruleBasedScore = 4 * 16
    /\ threats = <<"Phishing keywords detected: verify, verify">>

(***************************************************************************)
(* C23                                                                     *)
(***************************************************************************)
\* the first well-formed JSON object of a text: of the substrings from a "{"
\* to a "}" that JSON.parse accepts, the one that starts first
FirstJsonObject(text) ==
    With(text, LAMBDA v :
    With({p \in {i \in 1..Len(v) : SubSeq(v, i, i) = "{"}
                 \X {j \in 1..Len(v) : SubSeq(v, j, j) = "}"} :
              p[1] < p[2] /\ JsonParse(SubSeq(v, p[1], p[2])).ok}, LAMBDA objects :
       IF objects = {} THEN [found |-> FALSE, value |-> EmptyObject]
       ELSE With(CHOOSE p \in objects :
                     \A q \in objects :
                         p[1] < q[1] \/ (p[1] = q[1] /\ p[2] <= q[2]), LAMBDA p :
                [found |-> TRUE, value |-> JsonParse(SubSeq(v, p[1], p[2])).value])))

\* the oracle answered 2xx with a message content
ContentReceived ==
    /\ pc = "done" /\ analyzer \in {"url", "email", "logo-vision"}
    /\ net.state = "response" /\ net.ok /\ net.body.json /\ net.body.hasContent

\* C23: when the oracle's reply is prose around a JSON payload, the adapter
\* uses the first well-formed JSON object of the reply, also when the text
\* after the object holds a closing brace or a second object.
FirstJsonObjectUsed ==
    (ContentReceived /\ FirstJsonObject(net.body.content).found)
        => aiAnalysis = FirstJsonObject(net.body.content).value

\* an object followed by prose with braces is answered with the fallback
\* signal of the URL analyzer
TrailingBraceGivesFallback ==
    /\ ContentReceived /\ analyzer = "url"
    /\ FirstJsonObject(net.body.content).found
    /\ TruthyFlag(FirstJsonObject(net.body.content).value, "isPhishing")
    /\ JsonMatch(net.body.content).found
    /\ ~JsonParse(JsonMatch(net.body.content).text).ok
    /\ aiAnalysis = UrlParseFailure

\* prose around a single object is tolerated: the object is used
ProseAroundObjectParsed ==
    /\ ContentReceived
    /\ ~StartsWith(net.body.content, "{")
    /\ FirstJsonObject(net.body.content).found
    /\ aiAnalysis = FirstJsonObject(net.body.content).value

(***************************************************************************)
(* C24                                                                     *)
(***************************************************************************)
\* the input begins with a scheme: a letter, scheme characters, and ":"
HasScheme(url) ==
    With(FirstOf(url, {":"}), LAMBDA colon :
        /\ 1 < colon /\ colon <= Len(url)
        /\ Ch(url, 1) \in (LowerLetters \cup UpperLetters)
        /\ AllIn(SubSeq(url, 1, colon - 1), SchemeChars))

\* the URL analyzer has extracted the features of a URL without scheme
SchemelessUrlExtracted ==
    /\ analyzer = "url" /\ pc # "idle" /\ features # EmptyObject
    /\ ~HasScheme(req.url)

\* C24: every URL input without a scheme, also one that merely begins with
\* the letters "http" such as httpbin.org/login, is parsed as https://<input>,
\* so domain length, subdomain count and port come from the parsed host and
\* not from the parse-failure fallback.
SchemelessUrlParsedAsHttps ==
    SchemelessUrlExtracted
        => \E parsedUrl \in {ParseUrl("https://" \o req.url)} :
               parsedUrl.ok
                   => /\ features.parsed
                      /\ features.hasHttps
                      /\ features.domainLength = Len(parsedUrl.hostname)
                      /\ features.numSubdomains
                             = Max(0, Len(Split(parsedUrl.hostname, ".")) - 2)
                      /\ features.hasPortNumber = (parsedUrl.port # "")

\* httpbin.org/login is handed to new URL as it is, the parse fails, and the
\* fallback features (no https, domain length 0) are scored
HttpbinTakesParseFailureFallback ==
    /\ SchemelessUrlExtracted
    /\ req.url = "httpbin.org/login"
    /\ ParseUrl("https://" \o req.url).hostname = "httpbin.org"
    /\ ~features.parsed
    /\ ~features.hasHttps
    /\ features.domainLength = 0
    /\ \E k \in 1..Len(threats) : threats[k] = "Insecure HTTP connection"

\* example.org/docs is parsed as https://example.org/docs
SchemelessUrlFromParsedHost ==
    /\ SchemelessUrlExtracted
    /\ req.url = "example.org/docs"
    /\ features.parsed
    /\ features.domainLength = Len("example.org")

(***************************************************************************)
(* The dashboard: the useScans hook, the scans table behind its row-level  *)
(* security policies, and the realtime channel.  userId is the prop of the *)
(* hook, the id of the session's user, "" without a session; the requests  *)
(* of the browser reach the database as that user.  A call of analyzeUrl,  *)
(* fetchScans or deleteScan keeps the userId of the render that made it.   *)
(***************************************************************************)
UserIds == {"u1"}

\* public.user_roles: the users with the role admin
AdminIds == {"a1"}

MaxCalls == 2

MaxFetches == 2

MaxChannels == 2

ScanUrls == {"example.org/docs", "https://example.org/verify"}

\* the answers of analyze-url to a scan: a hybrid result, the rule-based
\* fallback, and an error response
ScanOracleObjects ==
    {JsonParse("{\"isPhishing\":true,\"confidence\":10,\"reasoning\":\"Weak signal\"}").value}

AnalyzerAnswers ==
    [u \in ScanUrls |->
        With(extractUrlFeatures(u), LAMBDA f :
        With(calculateRiskScore(f), LAMBDA scored :
           {UrlHybridResponse(u, f, scored.score4, scored.threats, object) :
                object \in ScanOracleObjects}
           \cup {UrlFallbackResponse(u, f, scored.score4, scored.threats),
                 ErrorResponse(500, KeyMissingMessage)}))]

\* fetch rejects: the request did not reach the function
FetchRejection == [status |-> 0, body |-> [error |-> "Failed to fetch"]]

\* what the fetch of a scan can settle with
ScanAnswers == UNION {AnalyzerAnswers[u] : u \in ScanUrls} \cup {FetchRejection}

\* the policies of public.scans; a command without a policy is denied
ScansPolicies ==
    {[name |-> "Users can view their own scans", command |-> "SELECT", rule |-> "own"],
     [name |-> "Users can insert their own scans", command |-> "INSERT", rule |-> "own"],
     [name |-> "Admins can view all scans", command |-> "SELECT", rule |-> "admin"]}

\* row-level security: some policy for the command admits the row for auth.uid()
Permitted(command, uid, row) ==
    \E p \in ScansPolicies :
        /\ p.command = command
        /\ IF p.rule = "own" THEN uid = row.user_id ELSE uid \in AdminIds

\* the CHECK constraints of public.scans
ChecksPass(row) ==
    /\ row.result \in {"safe", "phishing", "suspicious"}
    /\ row.confidence4 >= 4 * 0 /\ row.confidence4 <= 4 * 100

\* the error of an insert: the policy is checked before the constraints
InsertError(row, uid) ==
    IF ~Permitted("INSERT", uid, row) THEN "rls"
    ELSE IF ~ChecksPass(row) THEN "check" ELSE "none"

\* .order("scanned_at", { ascending: false })
RECURSIVE OrderDesc(_)
OrderDesc(rows) ==
    IF rows = {} THEN <<>>
    ELSE With(CHOOSE r \in rows : \A q \in rows : r.scanned_at >= q.scanned_at,
              LAMBDA r : <<r>> \o OrderDesc(rows \ {r}))

\* select * from scans where user_id = forUser, as seen by auth.uid() = uid
SelectScans(forUser, uid) ==
    Slice0(OrderDesc({row \in table :
                          row.user_id = forUser /\ Permitted("SELECT", uid, row)}), 50)

\* a state setter of the hook: a component that is gone keeps no state
SetState(now, next) == IF mounted THEN next ELSE now

Toast(message, about) == [message |-> message, about |-> about]

\* a step of the dashboard leaves the functions and the Navbar alone
OnlyScans ==
    UNCHANGED <<pc, analyzer, req, apiKey, features, ruleBasedScore, threats, net,
                aiAnalysis, resp, log, navVars>>

\* the prop changes (sign in, sign out, another user): the effect on [userId]
\* runs fetchScans and subscribeToScans, and drops what subscribeToScans returns
ChangeUser(u) ==
    /\ mounted
    /\ u # userId
    /\ u # "" => Len(channels) < MaxChannels /\ Len(fetches) < MaxFetches
    /\ userId' = u
    /\ fetches' = IF u # "" THEN Append(fetches, u) ELSE fetches
    /\ channels' = IF u # "" THEN Append(channels, u) ELSE channels
    /\ UNCHANGED <<mounted, scans, isLoading, currentResult, calls, deletes, table,
                   events, toast>>
    /\ OnlyScans

\* the component unmounts: the effect returned no cleanup
Unmount ==
    /\ mounted
    /\ mounted' = FALSE
    /\ UNCHANGED <<userId, scans, isLoading, currentResult, calls, fetches, deletes,
                   table, channels, events, toast>>
    /\ OnlyScans

\* analyzeUrl up to the await of fetch; the calls are numbered as they start
AnalyzeUrl(c, url) ==
    /\ mounted
    /\ calls[c].pc = "idle"
    /\ \A d \in 1..(c - 1) : calls[d].pc # "idle"
    /\ IF userId = ""
       THEN /\ toast' = Toast("Please sign in to scan URLs", 0)
            /\ UNCHANGED <<isLoading, currentResult, calls>>
       ELSE /\ isLoading' = TRUE
            /\ currentResult' = EmptyObject
            /\ calls' = [calls EXCEPT ![c] =
                            [pc |-> "awaitFetch", url |-> url, userId |-> userId]]
            /\ UNCHANGED toast
    /\ UNCHANGED <<userId, mounted, scans, fetches, deletes, table, channels, events>>
    /\ OnlyScans

\* analyzeUrl from the response to the await of the insert, or through the
\* catch and the finally
FetchSettles(c, answer) ==
    /\ calls[c].pc = "awaitFetch"
    /\ answer.status = 200 => answer.body.url = calls[c].url
    /\ IF answer.status = 200
       THEN /\ currentResult' = SetState(currentResult, answer.body)
            /\ calls' = [calls EXCEPT ![c] =
                            [pc |-> "awaitInsert", url |-> calls[c].url,
                             userId |-> calls[c].userId, result |-> answer.body]]
            /\ UNCHANGED <<isLoading, toast>>
       ELSE /\ toast' = Toast(answer.body.error, 0)
            /\ isLoading' = SetState(isLoading, FALSE)
            /\ calls' = [calls EXCEPT ![c] =
                            [pc |-> "done", url |-> calls[c].url,
                             userId |-> calls[c].userId, saved |-> "no response"]]
            /\ UNCHANGED currentResult
    /\ UNCHANGED <<userId, mounted, scans, fetches, deletes, table, channels, events>>
    /\ OnlyScans

\* the row analyzeUrl inserts for its result
ScanRow(c) ==
    [id |-> c,
     user_id |-> calls[c].userId,
     url |-> calls[c].result.url,
     result |-> calls[c].result.result,
     confidence4 |-> calls[c].result.confidence4,
     scanned_at |-> Cardinality(table) + 1]

ResultToast(result) ==
    IF result = "phishing" THEN Toast("Phishing threat detected!", 0)
    ELSE IF result = "suspicious" THEN Toast("Suspicious activity detected", 0)
    ELSE Toast("URL verified safe", 0)

\* analyzeUrl from the insert's answer to the end: the change of the table is
\* announced to the channels, fetchScans is started, the toast shown
InsertReturns(c) ==
    /\ calls[c].pc = "awaitInsert"
    /\ Len(fetches) < MaxFetches
    /\ \E saveError \in {InsertError(ScanRow(c), userId)} :
           /\ table' = IF saveError = "none" THEN table \cup {ScanRow(c)} ELSE table
           /\ events' = IF saveError = "none" THEN events \cup (1..Len(channels))
                        ELSE events
           /\ calls' = [calls EXCEPT ![c] =
                           [pc |-> "done", url |-> calls[c].url,
                            userId |-> calls[c].userId, result |-> calls[c].result,
                            saved |-> saveError]]
    /\ fetches' = Append(fetches, calls[c].userId)
    /\ toast' = ResultToast(calls[c].result.result)
    /\ isLoading' = SetState(isLoading, FALSE)
    /\ UNCHANGED <<userId, mounted, scans, currentResult, deletes, channels>>
    /\ OnlyScans

\* a channel's callback runs for an announced change and calls fetchScans
ChannelCallback(k) ==
    /\ k \in events
    /\ Len(fetches) < MaxFetches
    /\ events' = events \ {k}
    /\ fetches' = Append(fetches, channels[k])
    /\ UNCHANGED <<userId, mounted, scans, isLoading, currentResult, calls, deletes,
                   table, channels, toast>>
    /\ OnlyScans

\* fetchScans after its await: an error leaves scans alone
FetchScansReturns(i, failed) ==
    /\ i \in 1..Len(fetches)
    /\ fetches' = SubSeq(fetches, 1, i - 1) \o SubSeq(fetches, i + 1, Len(fetches))
    /\ scans' = IF failed THEN scans
                ELSE SetState(scans, SelectScans(fetches[i], userId))
    /\ UNCHANGED <<userId, mounted, isLoading, currentResult, calls, deletes, table,
                   channels, events, toast>>
    /\ OnlyScans

\* deleteScan up to its await, from the button of a row of the history
DeleteScan(id) ==
    /\ mounted
    /\ \E k \in 1..Len(scans) : scans[k].id = id
    /\ \A d \in deletes : d.id # id
    /\ deletes' = deletes \cup {[id |-> id, userId |-> userId]}
    /\ UNCHANGED <<userId, mounted, scans, isLoading, currentResult, calls, fetches,
                   table, channels, events, toast>>
    /\ OnlyScans

\* the rows a delete request removes: those of the filter that a policy admits
DeletedRows(d, uid) ==
    {row \in table :
         row.id = d.id /\ row.user_id = d.userId /\ Permitted("DELETE", uid, row)}

\* deleteScan after its await.  about is the id the call was made for; the
\* toast itself shows the message only.
DeleteReturns(d, failed) ==
    /\ d \in deletes
    /\ deletes' = deletes \ {d}
    /\ IF failed
       THEN /\ toast' = Toast("Failed to delete scan", d.id)
            /\ UNCHANGED <<scans, table, events>>
       ELSE /\ table' = table \ DeletedRows(d, userId)
            /\ events' = IF DeletedRows(d, userId) # {}
                         THEN events \cup (1..Len(channels)) ELSE events
            /\ scans' = SetState(scans, SelectSeq(scans, LAMBDA s : s.id # d.id))
            /\ toast' = Toast("Scan deleted", d.id)
    /\ UNCHANGED <<userId, mounted, isLoading, currentResult, calls, fetches, channels>>
    /\ OnlyScans

NextScans ==
    \/ \E u \in UserIds \cup {""} : ChangeUser(u)
    \/ Unmount
    \/ \E c \in 1..MaxCalls, url \in ScanUrls : AnalyzeUrl(c, url)
    \/ \E c \in 1..MaxCalls, answer \in ScanAnswers : FetchSettles(c, answer)
    \/ \E c \in 1..MaxCalls : InsertReturns(c)
    \/ \E k \in 1..MaxChannels : ChannelCallback(k)
    \/ \E i \in 1..MaxFetches, failed \in BOOLEAN : FetchScansReturns(i, failed)
    \/ \E id \in 1..MaxCalls : DeleteScan(id)
    \/ \E id \in 1..MaxCalls, u \in UserIds \cup {""}, failed \in BOOLEAN :
           DeleteReturns([id |-> id, userId |-> u], failed)

\* the browser starts; the functions are deployed with their key
InitDashboard == Init /\ apiKey = TRUE

SpecScans == InitDashboard /\ [][NextScans]_vars

(***************************************************************************)
(* C25                                                                     *)
(***************************************************************************)
\* a call of analyzeUrl that has started and not reached its finally
InFlight(c) == calls[c].pc \in {"awaitFetch", "awaitInsert"}

\* both calls have finished and each received a result
BothScansAnswered ==
    \A c \in 1..MaxCalls : calls[c].pc = "done" /\ Has(calls[c], "result")

\* C25: when calls of analyzeUrl overlap, isLoading stays true until all of
\* them have finished, and currentResult ends as the result of the call that
\* was started last, whatever the order of the responses.
OverlappingScansKeepLoadingAndLastResult ==
    mounted
        => /\ (\E c \in 1..MaxCalls : InFlight(c)) => isLoading
           /\ BothScansAnswered => currentResult = calls[MaxCalls].result

\* the first call finished while the second is still running, and isLoading
\* is false
LoadingClearedDuringScan ==
    /\ mounted
    /\ calls[1].pc = "done"
    /\ InFlight(2)
    /\ ~isLoading

\* both calls have finished and the result shown is that of the first call
EarlierScanShown ==
    /\ mounted
    /\ BothScansAnswered
    /\ calls[1].result # calls[2].result
    /\ currentResult = calls[1].result

(***************************************************************************)
(* C26                                                                     *)
(***************************************************************************)
\* C26: every result analyzeUrl displays as currentResult is stored as a row
\* of the scans table: the result value and the confidence of every
\* successful response of the URL analyzer, hybrid or fallback, satisfy the
\* CHECK constraints of the table, so the insert is not rejected by them.
DisplayedResultPassesChecks ==
    \A c \in 1..MaxCalls :
        Has(calls[c], "result")
            => /\ ChecksPass(calls[c].result)
               /\ calls[c].pc = "done" => calls[c].saved # "check"

\* a hybrid result with a confidence above 100 was displayed and its insert
\* was rejected by the CHECK constraint: the table has no row for it
DisplayedScanRejectedByCheck ==
    \E c \in 1..MaxCalls :
        /\ calls[c].pc = "done"
        /\ Has(calls[c], "result")
        /\ calls[c].result.analysisDetails.method = "hybrid-ai"
        /\ calls[c].result.confidence4 > 4 * 100
        /\ calls[c].saved = "check"
        /\ \A row \in table : row.id # c

(***************************************************************************)
(* C27                                                                     *)
(***************************************************************************)
\* a hybrid URL or email result, which reports a combinedScore
HybridResult ==
    /\ Succeeded
    /\ analyzer \in {"url", "email"}
    /\ resp.body.analysisDetails.method # "rule-based"

\* C27: in URL and email results the rounded combinedScore reported in
\* analysisDetails agrees with the verdict: the verdict is phishing exactly
\* when the reported combinedScore is at least 50, and safe exactly when it is
\* below 25.
ReportedCombinedScoreAgreesWithVerdict ==
    HybridResult
        => /\ resp.body.result = "phishing"
                  <=> resp.body.analysisDetails.combinedScore >= 50
           /\ resp.body.result = "safe"
                  <=> resp.body.analysisDetails.combinedScore < 25

\* rule score 0 and a positive oracle with confidence 66: combined 49.8 is
\* reported as 50 with the verdict suspicious
SuspiciousReportedAsFifty ==
    /\ HybridResult
    /\ ruleBasedScore = 0
    /\ aiAnalysis = [isPhishing |-> TRUE, confidence |-> 66]
    /\ resp.body.result = "suspicious"
    /\ resp.body.analysisDetails.combinedScore = 50

(***************************************************************************)
(* C28                                                                     *)
(***************************************************************************)
\* deleteScan(id), called by the signed-in user, reports "Scan deleted"
DeleteReportsSuccess(id) ==
    /\ userId \in UserIds
    /\ DeleteReturns([id |-> id, userId |-> userId], FALSE)

\* C28: after deleteScan(id) reports success for a scan of the signed-in
\* user, the scan is gone from the stored history under the policies of the
\* table, so that no later fetchScans returns it.
DeleteReportedMeansRowGone ==
    [][\A id \in 1..MaxCalls :
           DeleteReportsSuccess(id) => \A row \in table' : row.id # id]_vars

\* C28, second part: when the delete reports an error, the local scans list
\* is left unchanged
FailedDeleteKeepsScans ==
    [][\A id \in 1..MaxCalls, u \in UserIds \cup {""} :
           DeleteReturns([id |-> id, userId |-> u], TRUE) => scans' = scans]_vars

\* "Scan deleted" was shown for a scan, and a later fetchScans has put the
\* scan back into the list: its row is still in the table
DeletedScanBackInHistory ==
    /\ mounted
    /\ userId \in UserIds
    /\ toast = Toast("Scan deleted", toast.about)
    /\ deletes = {}
    /\ \E k \in 1..Len(scans) :
           /\ scans[k].id = toast.about
           /\ scans[k].user_id = userId
           /\ scans[k] \in table

(***************************************************************************)
(* C30                                                                     *)
(***************************************************************************)
\* C30: a useScans instance holds at most one subscribed realtime channel at
\* any time, none after the component has unmounted, and none that was opened
\* for an earlier userId: every channel subscribeToScans opens is removed.
AtMostOneChannelNoneAfterUnmount ==
    /\ Len(channels) <= 1
    /\ ~mounted => channels = <<>>
    /\ \A k \in 1..Len(channels) : channels[k] = userId

\* the component has unmounted and the channel it opened is still subscribed
ChannelOpenAfterUnmount ==
    /\ ~mounted
    /\ Len(channels) = 1

\* after a sign-out and a sign-in the instance holds two channels
TwoChannelsSubscribed ==
    /\ mounted
    /\ Len(channels) = 2

(***************************************************************************)
(* The Navbar: user and isAdmin, the auth session behind them, the         *)
(* setTimeout callbacks and the checkAdminStatus queries in flight.  A     *)
(* user id is "" for null.  A query carries the user it asks about and the *)
(* session it was sent with; equal queries are kept once.                  *)
(***************************************************************************)
AccountIds == AdminIds \cup UserIds

\* a step of the Navbar leaves the functions and the dashboard alone
OnlyNavbar ==
    UNCHANGED <<pc, analyzer, req, apiKey, features, ruleBasedScore, threats, net,
                aiAnalysis, resp, log, scansVars>>

\* checkAdminStatus(u) up to its await: the query is sent as the session's user
AdminQuery(u) == [userId |-> u, uid |-> session]

\* the policies of public.user_roles: a user sees the own roles, an admin all
RoleVisible(uid, owner) == uid = owner \/ uid \in AdminIds

\* the callback of onAuthStateChange, called with the session's user
AuthCallback(sessionUser) ==
    /\ user' = sessionUser
    /\ IF sessionUser # ""
       THEN /\ timers' = timers \cup {sessionUser}
            /\ UNCHANGED isAdmin
       ELSE /\ isAdmin' = FALSE
            /\ UNCHANGED timers

\* somebody signs in: the auth client has a session and calls the callback
SignIn(u) ==
    /\ session = ""
    /\ session' = u
    /\ AuthCallback(u)
    /\ UNCHANGED <<sessionRead, adminChecks, signingOut>>
    /\ OnlyNavbar

\* an auth event that keeps the session (initial session, token refreshed)
SessionEvent ==
    /\ AuthCallback(session)
    /\ UNCHANGED <<session, sessionRead, adminChecks, signingOut>>
    /\ OnlyNavbar

\* the session ends, by signOut or by its expiry: the callback gets no session
SessionEnds ==
    /\ session # ""
    /\ session' = ""
    /\ AuthCallback("")
    /\ UNCHANGED <<sessionRead, adminChecks, signingOut>>
    /\ OnlyNavbar

\* getSession().then(...): the user is set and checkAdminStatus called
GetSessionResolves ==
    /\ sessionRead = "pending"
    /\ sessionRead' = "done"
    /\ user' = session
    /\ adminChecks' = IF session # "" THEN adminChecks \cup {AdminQuery(session)}
                      ELSE adminChecks
    /\ UNCHANGED <<isAdmin, session, timers, signingOut>>
    /\ OnlyNavbar

\* the setTimeout callback runs: checkAdminStatus up to its await
TimerFires(u) ==
    /\ u \in timers
    /\ timers' = timers \ {u}
    /\ adminChecks' = adminChecks \cup {AdminQuery(u)}
    /\ UNCHANGED <<user, isAdmin, session, sessionRead, signingOut>>
    /\ OnlyNavbar

\* checkAdminStatus after its await: data is the user's one role row when the
\* query was answered and the policies show the row, null otherwise
AdminCheckReturns(q, answered) ==
    /\ q \in adminChecks
    /\ adminChecks' = adminChecks \ {q}
    /\ isAdmin' = (answered /\ RoleVisible(q.uid, q.userId) /\ q.userId \in AdminIds)
    /\ UNCHANGED <<user, session, sessionRead, timers, signingOut>>
    /\ OnlyNavbar

\* handleSignOut up to the await of signOut, from the menu of a signed-in user
HandleSignOut ==
    /\ user # ""
    /\ ~signingOut
    /\ signingOut' = TRUE
    /\ UNCHANGED <<user, isAdmin, session, sessionRead, timers, adminChecks>>
    /\ OnlyNavbar

\* handleSignOut after the await; the result of signOut is not looked at
SignOutReturns ==
    /\ signingOut
    /\ signingOut' = FALSE
    /\ user' = ""
    /\ isAdmin' = FALSE
    /\ UNCHANGED <<session, sessionRead, timers, adminChecks>>
    /\ OnlyNavbar

NextNavbar ==
    \/ \E u \in AccountIds : SignIn(u)
    \/ SessionEvent
    \/ SessionEnds
    \/ GetSessionResolves
    \/ \E u \in AccountIds : TimerFires(u)
    \/ \E u \in AccountIds, uid \in AccountIds \cup {""}, answered \in BOOLEAN :
           AdminCheckReturns([userId |-> u, uid |-> uid], answered)
    \/ HandleSignOut
    \/ SignOutReturns

SpecNavbar == InitDashboard /\ [][NextNavbar]_vars

(***************************************************************************)
(* C29                                                                     *)
(***************************************************************************)
\* C29: in the Navbar user = null implies isAdmin = false in every reachable
\* state, also when a checkAdminStatus query that was started while signed in
\* completes after the sign-out or after an auth event without session.
NoUserNoAdmin == user = "" => ~isAdmin

\* nobody is signed in, no query is pending, and isAdmin is true: the query
\* sent for the admin returned after the sign-out
AdminShownWithoutUser ==
    /\ user = ""
    /\ session = ""
    /\ adminChecks = {}
    /\ timers = {}
    /\ ~signingOut
    /\ isAdmin

=============================================================================
